---- MODULE Spec2Model ----
(***************************************************************************)
(* The ledger and attribution engine of the Cryptogeezas investment club.  *)
(*                                                                         *)
(* The state is the three persisted documents (contributions.json,         *)
(* transactions.json, portfolio.json) and what surrounds them: the clock,  *)
(* the files of the data directory, the prices fetched, and the script     *)
(* runs in progress.  The handlers of the two Streamlit applications       *)
(* (app.py, app_modern.py) load the documents, change them and save them.  *)
(*                                                                         *)
(* Spec is the single writer on the pages that write: one handler runs to  *)
(* completion before the next and is one action.  The other                *)
(* specifications widen it in one direction each: SpecDirect calls the     *)
(* functions of app.py without the pages, SpecStreak and SpecDated date    *)
(* the contributions, SpecPrices follows the price fetch, SpecStorage the  *)
(* files and a crash between two saves, SpecWriters and SpecQuickAdd two   *)
(* sessions that interleave between file operations, SpecReports the runs  *)
(* of the report pages, and SpecSample the sample data script              *)
(* (init_sample_data.py) run beside the application.                       *)
(*                                                                         *)
(* A form widget restricts what reaches its handler (a selectbox to its    *)
(* options, a number input to values from its min_value up).  That is a    *)
(* guard of the page action: the handler itself does not refuse such a     *)
(* value, and a direct call is not restricted.                             *)
(*                                                                         *)
(* Numbers: the code computes in binary floating point.  Money and         *)
(* quantities are modelled as exact integers (whole units), the smallest   *)
(* value a form widget accepts (its min_value) as the unit 1.  Percentages *)
(* are fixed-point numbers with PctScale units per percent, the division   *)
(* truncating.  Dates are proleptic Gregorian ordinals, as                 *)
(* datetime.date.toordinal() numbers them, with the time of day beside     *)
(* them where the code writes one.  The "notes" of a transaction, and the  *)
(* "timestamp" of a record the pages write, are left out of the records:   *)
(* the timestamps of a ledger rise in the order of its list.               *)
(***************************************************************************)
EXTENDS Integers, Sequences, FiniteSets, TLC

(***************************************************************************)
(* Bounds of the model.                                                    *)
(***************************************************************************)
\* Contribution records in the whole ledger.
MaxContribs == 4
\* Transaction records in the ledger.
MaxTx == 2
\* Transaction records in the ledger of direct calls (SpecDirect).
MaxDirectTx == 2
\* Contribution records in the ledger of direct calls (SpecDirect).
MaxDirectContribs == 2
\* Contribution records of the member whose streak is computed (SpecStreak).
MaxStreakContribs == 3
\* Contribution records in the ledger of dated contributions (SpecDated).
MaxDatedContribs == 5
\* Weeks that pass over the ledger of dated contributions (SpecDated).
MaxWeeks == 1
\* Contribution records in the ledger of the data directory (SpecStorage).
MaxStorageContribs == 2

(***************************************************************************)
(* Program constants.                                                      *)
(***************************************************************************)
MEMBERS == <<"Charles", "Ross Parmenter", "Jayden Kenna", "Brad Johnson">>

\* The registry as a set.
MemberSet == {MEMBERS[i] : i \in 1..Len(MEMBERS)}

\* "Add $50 AUD for All Members".
QuickAddAmount == 50

\* min_value of the contribution amount widget (0.01: one smallest unit).
ContributionMinValue == 1
\* min_value of the crypto amount widget (0.000001: one smallest unit).
AmountMinValue == 1
\* min_value of the price widget (0.01: one smallest unit).
PriceMinValue == 1
\* min_value of the transaction fee widget.
FeeMinValue == 0

\* Fixed-point units per percent.
PctScale == 10000

(***************************************************************************)
(* Calendar arithmetic of datetime (toordinal, year, weekday, isocalendar).*)
(***************************************************************************)
IsLeap(y) == (y % 4 = 0) /\ ((y % 100 # 0) \/ (y % 400 = 0))

DaysBeforeYear(y) ==
    (y - 1) * 365 + ((y - 1) \div 4) - ((y - 1) \div 100) + ((y - 1) \div 400)

DaysBeforeMonth(y, m) ==
    LET cum == <<0, 31, 59, 90, 120, 151, 181, 212, 243, 273, 304, 334>>
    IN  cum[m] + (IF m > 2 /\ IsLeap(y) THEN 1 ELSE 0)

\* date(y, m, d).toordinal()
Ordinal(y, m, d) == DaysBeforeYear(y) + DaysBeforeMonth(y, m) + d

\* date.fromordinal(o).year
YearOf(o) ==
    LET guess == ((o - 1) * 400) \div 146097 + 1
    IN  IF o <= DaysBeforeYear(guess) THEN guess - 1
        ELSE IF o > DaysBeforeYear(guess + 1) THEN guess + 1
        ELSE guess

\* date.weekday(): Monday is 0.
Weekday(o) == (o + 6) % 7

\* The Monday of ISO week 1 of year y (the week holding the year's first Thursday).
IsoWeek1Monday(y) ==
    LET firstday == DaysBeforeYear(y) + 1
        firstweekday == (firstday + 6) % 7
        week1monday == firstday - firstweekday
    IN  IF firstweekday > 3 THEN week1monday + 7 ELSE week1monday

\* date.isocalendar()[1]
IsoWeek(o) ==
    LET y == YearOf(o)
        w == (o - IsoWeek1Monday(y)) \div 7
    IN  IF o < IsoWeek1Monday(y)
          THEN ((o - IsoWeek1Monday(y - 1)) \div 7) + 1
          ELSE IF w >= 52 /\ o >= IsoWeek1Monday(y + 1) THEN 1
          ELSE w + 1

(***************************************************************************)
(* State.                                                                  *)
(***************************************************************************)
VARIABLES
    contributions,  \* contributions.json: member -> sequence of [amount, date, time]
    transactions,   \* transactions.json: sequence of transaction records
    portfolio,      \* portfolio.json: crypto symbol -> quantity held
    now,            \* datetime.now(): the day
    clock,          \* datetime.now(): the time of day, to the microsecond
    outcome,        \* what the last handler reported: a set of tags
    files,          \* per document of the data directory: "ok" or how it is damaged
    file_size,      \* per document of the data directory: the bytes of its file
    prices,         \* the dict the last get_crypto_prices() returned
    pending,        \* the run of main() in progress, between its file accesses
    sessions,       \* per browser session: the script run in progress, its locals
    report          \* the last report shown: the page and what it showed

vars == <<contributions, transactions, portfolio, now, clock, outcome, files,
          file_size, prices, pending, sessions, report>>

\* What the pages of the single-writer ledger leave alone: the data directory
\* stays readable, no call is interrupted, and one script run ends before
\* the next begins.  The price fetch main() makes before every page writes
\* nothing to the ledgers and is not followed here (SpecPrices follows it).
\* The size of a file matters only when a session writes a file another
\* session has open, and is not followed here.  A handler that writes shows
\* no report.
surroundings == <<files, file_size, prices, pending, sessions, report>>

\* The documents of the data directory.
Documents == {"contributions", "transactions", "portfolio"}

\* main() has not fetched a price yet.
NoPrices == <<>>

\* No run of main() is in progress.
Idle == [step |-> "idle"]

\* No report was computed yet.
NoReport == [page |-> "none"]

\* The browser sessions that may run the script at the same time.
Writers == {1, 2}

\* The day the ledger operations are run on: Wednesday 2025-06-11.
Today == Ordinal(2025, 6, 11)

\* Times of day the script is run at, as (hour, minute, second, microsecond):
\* 14:10, 14:30:00.000001 and 14:50.
ClockTimes == {<<14, 10, 0, 0>>, <<14, 30, 0, 1>>, <<14, 50, 0, 0>>}

\* contribution_date.isoformat(): the day of the date input.  The string has
\* no time of day, kept as <<>>.
IsoDate(day) == [day |-> day, time |-> <<>>]

\* datetime.now().isoformat(): the day and the time of day, to the
\* microsecond.
IsoDateTime(day, time) == [day |-> day, time |-> time]

\* datetime.now()
datetime_now == IsoDateTime(now, clock)

\* len() of an isoformat string: "2025-06-11", "2025-06-11T14:10:00" (the
\* microseconds are left out when they are 0) or
\* "2025-06-11T14:30:00.000001".
IsoLength(time) == IF time = <<>> THEN 10 ELSE IF time[4] = 0 THEN 19 ELSE 26

\* datetime.fromisoformat(record["date"]) <= moment.  A string without a time
\* of day is read as the midnight of its day; two times of day compare
\* field by field, down to the microsecond.
NotAfter(record, moment) ==
    LET time_of(time) == IF time = <<>> THEN <<0, 0, 0, 0>> ELSE time
        a == time_of(record.time)
        b == time_of(moment.time)
    IN  \/ record.date < moment.day
        \/ /\ record.date = moment.day
           /\ \/ a = b
              \/ \E i \in 1..4 : a[i] < b[i] /\ \A j \in 1..(i - 1) : a[j] = b[j]

(***************************************************************************)
(* Sums, as Python's sum() adds them: left to right, from 0.               *)
(***************************************************************************)
RECURSIVE SumFirst(_, _)
SumFirst(s, n) == IF n = 0 THEN 0 ELSE SumFirst(s, n - 1) + s[n]

SumSeq(s) == SumFirst(s, Len(s))

\* [c["amount"] for c in records]
Amounts(records) == [i \in 1..Len(records) |-> records[i].amount]

\* [t["total_cost"] for t in txs]
TotalCosts(txs) == [i \in 1..Len(txs) |-> txs[i].total_cost]

\* dict.get(key, default)
Get(d, key, default) == IF key \in DOMAIN d THEN d[key] ELSE default

(***************************************************************************)
(* Contribution ledger (app.py; app_modern.py holds the same code).        *)
(***************************************************************************)
\* init_data_files: the documents written when none exists.
initial_contributions == [m \in MemberSet |-> <<>>]

initial_portfolio == [c \in {"BTC", "ETH"} |-> 0]

\* What init_data_files writes for a document that does not exist.
InitialDocument(document) ==
    IF document = "contributions" THEN initial_contributions
    ELSE IF document = "transactions" THEN <<>>
    ELSE initial_portfolio

\* A faulty variant: the new record put before the earlier ones.
add_contribution_prepending(contribs, member, amount, date) ==
    LET loaded == IF member \in DOMAIN contribs
                    THEN contribs
                    ELSE contribs @@ (member :> <<>>)
    IN  [loaded EXCEPT ![member] =
            <<[amount |-> amount, date |-> date.day, time |-> date.time]>> \o @]

\* add_contribution(member, amount, date): the contributions document after
\* load_json, append and save_json.  The function checks neither argument.
\* date is the isoformat string it is given, or datetime.now().isoformat()
\* when it is given none; the record keeps its day and its time of day.
add_contribution(contribs, member, amount, date) ==
    LET loaded == IF member \in DOMAIN contribs
                    THEN contribs
                    ELSE contribs @@ (member :> <<>>)
    IN  [loaded EXCEPT ![member] =
            Append(@, [amount |-> amount, date |-> date.day, time |-> date.time])]

\* sum(contrib["amount"] for contrib in member_contributions)
SumAmounts(records) == SumSeq(Amounts(records))

\* calculate_total_contributions(): totals over MEMBERS only.
calculate_total_contributions(contribs) ==
    [m \in MemberSet |-> SumAmounts(Get(contribs, m, <<>>))]

\* sum(totals.values())
RECURSIVE SumValues(_)
SumValues(f) ==
    IF DOMAIN f = {} THEN 0
    ELSE LET k == CHOOSE x \in DOMAIN f : TRUE
         IN  f[k] + SumValues([x \in DOMAIN f \ {k} |-> f[x]])

\* The number of characters json.dump(data, f, indent=2, default=str) writes
\* for a document (all of them ASCII, one byte each); stamp is the length
\* of the "timestamp" of its records.  Amounts, prices and fees are floats
\* ("50.0"); a holding is the int 0 until an amount is added to it.  A
\* transaction record has the nine keys add_transaction_with_date gives it,
\* with a date of the date input and empty notes.
json_dump_length(document, data, stamp) ==
    LET float(n) == (IF n < 10 THEN 1 ELSE IF n < 100 THEN 2 ELSE 3) + 2
        string(text) == Len(text) + 2
        between(n) == 2 * (n - 1)
        contribution(c) == 65 + float(c.amount) + IsoLength(c.time) + stamp
        member_list(records) ==
            IF records = <<>> THEN 2
            ELSE 2 + SumSeq([i \in 1..Len(records) |-> 4 + contribution(records[i])])
                   + between(Len(records)) + 4
        purchase(t) == 179 + string(t.crypto) + float(t.amount) + float(t.price)
                           + float(t.transaction_fee) + float(t.total_cost) + stamp
        holding(quantity) == IF quantity = 0 THEN 1 ELSE float(quantity)
    IN  IF data = <<>> THEN 2
        ELSE IF document = "contributions"
          THEN 2 + SumValues([m \in DOMAIN data |->
                                 2 + string(m) + 2 + member_list(data[m])])
                 + between(Cardinality(DOMAIN data)) + 2
        ELSE IF document = "transactions"
          THEN 2 + SumSeq([i \in 1..Len(data) |-> 2 + purchase(data[i])])
                 + between(Len(data)) + 2
        ELSE 2 + SumValues([c \in DOMAIN data |->
                               2 + string(c) + 2 + holding(data[c])])
               + between(Cardinality(DOMAIN data)) + 2

\* (amount / total) * 100 in fixed point, PctScale units per percent.
Percent(amount, total) == (amount * 100 * PctScale) \div total

\* A faulty variant: the pool taken as the largest member total.
RECURSIVE MaxFirst(_, _)
MaxFirst(s, n) ==
    IF n = 0 THEN 0
    ELSE IF s[n] > MaxFirst(s, n - 1) THEN s[n] ELSE MaxFirst(s, n - 1)
calculate_ownership_percentages_of_largest(contribs) ==
    LET totals == calculate_total_contributions(contribs)
        total_pool == MaxFirst([i \in 1..Len(MEMBERS) |-> totals[MEMBERS[i]]],
                               Len(MEMBERS))
    IN  IF total_pool = 0
          THEN [m \in MemberSet |-> 0]
          ELSE [m \in MemberSet |-> Percent(totals[m], total_pool)]

\* A faulty variant: an empty pool split evenly.
calculate_ownership_percentages_even_split(contribs) ==
    LET totals == calculate_total_contributions(contribs)
        total_pool == SumSeq([i \in 1..Len(MEMBERS) |-> totals[MEMBERS[i]]])
    IN  IF total_pool = 0
          THEN [m \in MemberSet |-> Percent(1, Len(MEMBERS))]
          ELSE [m \in MemberSet |-> Percent(totals[m], total_pool)]

\* calculate_ownership_percentages()
calculate_ownership_percentages(contribs) ==
    LET totals == calculate_total_contributions(contribs)
        total_pool == SumSeq([i \in 1..Len(MEMBERS) |-> totals[MEMBERS[i]]])
    IN  IF total_pool = 0
          THEN [m \in MemberSet |-> 0]
          ELSE [m \in MemberSet |-> Percent(totals[m], total_pool)]

(***************************************************************************)
(* Transaction ledger and holdings.                                        *)
(***************************************************************************)
\* A faulty variant: the record given the type "sell".
Transaction_as_sale(crypto, amount, price, transaction_fee, total_cost, type, date) ==
    [crypto |-> crypto, amount |-> amount, price |-> price,
     transaction_fee |-> transaction_fee, total_cost |-> total_cost,
     type |-> "sell", date |-> date]

\* The transaction record both purchase paths build.
Transaction(crypto, amount, price, transaction_fee, total_cost, type, date) ==
    [crypto |-> crypto, amount |-> amount, price |-> price,
     transaction_fee |-> transaction_fee, total_cost |-> total_cost,
     type |-> type, date |-> date]

\* A faulty variant: the fee charged on every unit.
TotalCost_fee_per_unit(amount, price, transaction_fee) == amount * (price + transaction_fee)

\* total_cost = (amount * price) + transaction_fee
TotalCost(amount, price, transaction_fee) == (amount * price) + transaction_fee

\* A faulty variant: the holding overwritten by the amount bought.
AddHolding_overwriting(pf, crypto, amount) ==
    LET loaded == IF crypto \in DOMAIN pf THEN pf ELSE pf @@ (crypto :> 0)
    IN  [loaded EXCEPT ![crypto] = amount]

\* A faulty variant: the other holdings reset by the update.
AddHolding_resetting_others(pf, crypto, amount) ==
    LET loaded == IF crypto \in DOMAIN pf THEN pf ELSE pf @@ (crypto :> 0)
    IN  [c \in DOMAIN loaded |-> IF c = crypto THEN loaded[c] + amount ELSE 0]

\* portfolio[crypto] = portfolio.get(crypto, 0) + amount
AddHolding(pf, crypto, amount) ==
    LET loaded == IF crypto \in DOMAIN pf THEN pf ELSE pf @@ (crypto :> 0)
    IN  [loaded EXCEPT ![crypto] = @ + amount]

\* A faulty variant: the fee left out of the total_cost recorded.
add_transaction_with_date_without_fee(txs, pf, crypto, amount, price, transaction_fee, date) ==
    [transactions |->
        Append(txs, Transaction(crypto, amount, price, transaction_fee,
                                amount * price, "buy", date)),
     portfolio |-> AddHolding(pf, crypto, amount)]

\* add_transaction_with_date(crypto, amount, price, transaction_fee, date):
\* the two documents after load, append, holdings update and the two saves.
add_transaction_with_date(txs, pf, crypto, amount, price, transaction_fee, date) ==
    [transactions |->
        Append(txs, Transaction(crypto, amount, price, transaction_fee,
                                TotalCost(amount, price, transaction_fee),
                                "buy", date)),
     portfolio |-> AddHolding(pf, crypto, amount)]

\* add_transaction(crypto, amount, price, transaction_fee, transaction_type):
\* the older entry point, with no caller in the repository.  Its record has
\* no "date" key, and only a "buy" changes the holdings.
add_transaction(txs, pf, crypto, amount, price, transaction_fee, transaction_type) ==
    [transactions |->
        Append(txs, [crypto |-> crypto, amount |-> amount, price |-> price,
                     transaction_fee |-> transaction_fee,
                     total_cost |-> TotalCost(amount, price, transaction_fee),
                     type |-> transaction_type]),
     portfolio |-> IF transaction_type = "buy"
                     THEN AddHolding(pf, crypto, amount)
                     ELSE pf]

\* sum(t["total_cost"] for t in transactions if t["type"] == "buy")
TotalSpentBuy(txs) ==
    SumSeq(TotalCosts(SelectSeq(txs, LAMBDA t : t.type = "buy")))

\* sum(t["total_cost"] for t in transactions)
TotalSpentAll(txs) == SumSeq(TotalCosts(txs))

\* sum(calculate_total_contributions().values()): the totals in the order
\* of MEMBERS, in which the dict was filled.
TotalPool(contribs) ==
    LET totals == calculate_total_contributions(contribs)
    IN  SumSeq([i \in 1..Len(MEMBERS) |-> totals[MEMBERS[i]]])

\* available_balance of show_buy_crypto_page (app.py)
available_balance(contribs, txs) == TotalPool(contribs) - TotalSpentBuy(txs)

\* available_balance of show_record_purchases (app_modern.py)
available_balance_modern(contribs, txs) == TotalPool(contribs) - TotalSpentAll(txs)

(***************************************************************************)
(* Form widgets.                                                           *)
(***************************************************************************)
\* st.number_input(min_value=m): a value below m is not committed.
NumberInputAccepts(value, min_value) == value >= min_value

\* st.selectbox(options): only an option can be selected.
SelectboxAccepts(value, options) == value \in options

\* custom_crypto.upper(), on the symbols the model enters.
Upper(text) == CASE text = "ada" -> "ADA" [] OTHER -> text

\* crypto_to_buy / crypto_symbol: the selected option, or the custom symbol
\* in upper case ("" when none is entered).
CryptoSymbol(selected_crypto, custom_crypto) ==
    IF selected_crypto = "Other"
      THEN (IF custom_crypto # "" THEN Upper(custom_crypto) ELSE "")
      ELSE selected_crypto

(***************************************************************************)
(* Handlers of the contributions page.                                     *)
(***************************************************************************)
\* Contribution records in the document.
RecordCount(contribs) == SumValues([k \in DOMAIN contribs |-> Len(contribs[k])])

\* for member in MEMBERS: add_contribution(member, 50.0)
RECURSIVE AddForAll(_, _, _, _)
AddForAll(contribs, i, amount, date) ==
    IF i > Len(MEMBERS) THEN contribs
    ELSE AddForAll(add_contribution(contribs, MEMBERS[i], amount, date),
                   i + 1, amount, date)

\* "Add $50 AUD for All Members": add_contribution(member, 50.0) for every
\* member, dated now.
show_contributions_page_quick_add ==
    /\ RecordCount(contributions) + Len(MEMBERS) <= MaxContribs
    /\ contributions' = AddForAll(contributions, 1, QuickAddAmount,
                                  IsoDateTime(now, clock))
    /\ outcome' = {"added"}
    /\ UNCHANGED <<transactions, portfolio, now, clock>>

\* A faulty variant: a number input without min_value.
ContributionFormAccepts_any_amount(member, amount) ==
    SelectboxAccepts(member, MemberSet)

\* A faulty variant: a free text field in place of the selectbox.
ContributionFormAccepts_any_member(member, amount) ==
    NumberInputAccepts(amount, ContributionMinValue)

\* The values the widgets of the individual-contribution form can hand to
\* the script: st.selectbox("Select Member", MEMBERS) and
\* st.number_input("Amount (AUD)", min_value=0.01).
ContributionFormAccepts(member, amount) ==
    /\ SelectboxAccepts(member, MemberSet)
    /\ NumberInputAccepts(amount, ContributionMinValue)

\* "Add Contribution": add_contribution(selected_member, contribution_amount,
\* contribution_date.isoformat()), called with no check of its own on what
\* the widgets hold.  max_records bounds the ledger.
show_contributions_page_add(member, amount, date, max_records) ==
    /\ ContributionFormAccepts(member, amount)
    /\ RecordCount(contributions) < max_records
    /\ contributions' = add_contribution(contributions, member, amount,
                                         IsoDate(date))
    /\ outcome' = {"added"}
    /\ UNCHANGED <<transactions, portfolio, now, clock>>

(***************************************************************************)
(* Handlers of the purchase pages.                                         *)
(***************************************************************************)
\* The values the number inputs of the purchase form can hand to the script:
\* min_value=0.000001 for the amount, 0.01 for the price, 0.0 for the fee.
PurchaseFormAccepts(crypto_amount, price_per_unit, transaction_fee) ==
    /\ NumberInputAccepts(crypto_amount, AmountMinValue)
    /\ NumberInputAccepts(price_per_unit, PriceMinValue)
    /\ NumberInputAccepts(transaction_fee, FeeMinValue)

\* A faulty variant: the balance compared with the cost before the fee.
validation_errors_before_fee(crypto_to_buy, crypto_amount, price_per_unit, total_cost, balance) ==
    (IF crypto_to_buy = "" THEN {"symbol"} ELSE {})
    \cup (IF crypto_amount <= 0 THEN {"amount"} ELSE {})
    \cup (IF price_per_unit <= 0 THEN {"price"} ELSE {})
    \cup (IF crypto_amount * price_per_unit > balance THEN {"balance"} ELSE {})

\* A faulty variant: no check of the symbol.
validation_errors_without_symbol(crypto_to_buy, crypto_amount, price_per_unit, total_cost, balance) ==
    (IF crypto_amount <= 0 THEN {"amount"} ELSE {})
    \cup (IF price_per_unit <= 0 THEN {"price"} ELSE {})
    \cup (IF total_cost > balance THEN {"balance"} ELSE {})

\* A faulty variant: no check of the balance.
validation_errors_without_balance(crypto_to_buy, crypto_amount, price_per_unit, total_cost, balance) ==
    (IF crypto_to_buy = "" THEN {"symbol"} ELSE {})
    \cup (IF crypto_amount <= 0 THEN {"amount"} ELSE {})
    \cup (IF price_per_unit <= 0 THEN {"price"} ELSE {})

\* validation_errors of show_buy_crypto_page, one tag per message.
validation_errors(crypto_to_buy, crypto_amount, price_per_unit, total_cost, balance) ==
    (IF crypto_to_buy = "" THEN {"symbol"} ELSE {})
    \cup (IF crypto_amount <= 0 THEN {"amount"} ELSE {})
    \cup (IF price_per_unit <= 0 THEN {"price"} ELSE {})
    \cup (IF total_cost > balance THEN {"balance"} ELSE {})

\* "Record Transaction" of app.py for one filling of the form, balance being
\* the available balance the page computed on loading.  The page returns
\* before the form when there is no balance; the form holds what its widgets
\* can hold; the button is disabled while validation_errors is not empty.
buy_crypto_form(entry, balance) ==
    LET crypto_to_buy == CryptoSymbol(entry.selected, entry.custom)
        total_cost == TotalCost(entry.amount, entry.price, entry.fee)
        errors == validation_errors(crypto_to_buy, entry.amount, entry.price,
                                    total_cost, balance)
        saved == add_transaction_with_date(transactions, portfolio, crypto_to_buy,
                                           entry.amount, entry.price, entry.fee,
                                           entry.date)
    IN  IF balance <= 0
          THEN /\ outcome' = {"no_balance"}
               /\ UNCHANGED <<contributions, transactions, portfolio, now, clock>>
        ELSE IF errors # {}
          THEN /\ PurchaseFormAccepts(entry.amount, entry.price, entry.fee)
               /\ outcome' = errors \cup {"disabled"}
               /\ UNCHANGED <<contributions, transactions, portfolio, now, clock>>
        ELSE /\ PurchaseFormAccepts(entry.amount, entry.price, entry.fee)
             /\ Len(transactions) < MaxTx
             /\ transactions' = saved.transactions
             /\ portfolio' = saved.portfolio
             /\ outcome' = {"recorded"}
             /\ UNCHANGED <<contributions, now, clock>>

\* show_buy_crypto_page(prices): the available balance, then the form.
show_buy_crypto_page(entry) ==
    buy_crypto_form(entry, available_balance(contributions, transactions))

\* A faulty variant: no check of the balance.
can_purchase_without_balance(crypto_symbol, crypto_amount, price_per_unit, total_cost, balance) ==
    /\ crypto_symbol # ""
    /\ crypto_amount > 0
    /\ price_per_unit > 0

\* can_purchase of show_record_purchases
can_purchase(crypto_symbol, crypto_amount, price_per_unit, total_cost, balance) ==
    /\ crypto_symbol # ""
    /\ crypto_amount > 0
    /\ price_per_unit > 0
    /\ total_cost <= balance

\* The message show_record_purchases shows when can_purchase is false.
purchase_message(crypto_symbol, crypto_amount, total_cost, balance) ==
    IF crypto_symbol = "" THEN {"symbol"}
    ELSE IF crypto_amount <= 0 THEN {"amount"}
    ELSE IF total_cost > balance THEN {"balance"}
    ELSE {}

\* "Record Purchase" of app_modern.py for one filling of the form, balance
\* being the available balance the page computed on loading.
record_purchases_form(entry, balance) ==
    LET crypto_symbol == CryptoSymbol(entry.selected, entry.custom)
        total_cost == TotalCost(entry.amount, entry.price, entry.fee)
    IN  IF balance <= 0
          THEN /\ outcome' = {"no_balance"}
               /\ UNCHANGED <<contributions, transactions, portfolio, now, clock>>
        ELSE IF ~can_purchase(crypto_symbol, entry.amount, entry.price,
                              total_cost, balance)
          THEN /\ PurchaseFormAccepts(entry.amount, entry.price, entry.fee)
               /\ outcome' = purchase_message(crypto_symbol, entry.amount,
                                              total_cost, balance)
                              \cup {"disabled"}
               /\ UNCHANGED <<contributions, transactions, portfolio, now, clock>>
        ELSE /\ PurchaseFormAccepts(entry.amount, entry.price, entry.fee)
             /\ Len(transactions) < MaxTx
             /\ transactions' =
                    Append(transactions,
                           Transaction(crypto_symbol, entry.amount, entry.price,
                                       entry.fee, total_cost, "buy", entry.date))
             /\ portfolio' = AddHolding(portfolio, crypto_symbol, entry.amount)
             /\ outcome' = {"recorded"}
             /\ UNCHANGED <<contributions, now, clock>>

\* show_record_purchases(prices): the available balance, then the form.
show_record_purchases(entry) ==
    record_purchases_form(entry, available_balance_modern(contributions, transactions))

(***************************************************************************)
(* What is entered in the forms.                                           *)
(***************************************************************************)
\* Members and amounts the individual form is tried with: two members of the
\* registry and a name that is not in it, which the selectbox does not
\* offer; amounts of 25 and 50, and 0, which the number input does not hold.
MemberEntries == {MEMBERS[1], MEMBERS[2], "Mallory"}

AmountEntries == {0, 25, 50}

DateEntries == {Today}

Entry(selected, custom, amount, price, fee) ==
    [selected |-> selected, custom |-> custom, amount |-> amount,
     price |-> price, fee |-> fee, date |-> Today]

\* Fillings of the purchase form: costs of 40, 90, 50 and 200, an empty
\* symbol at costs of 40 and 200, and one filling for each number below the
\* min_value of its input, which the form does not hold.
PurchaseEntries ==
    { Entry("BTC", "", 1, 40, 0),
      Entry("ETH", "", 2, 40, 10),
      Entry("Other", "ada", 1, 40, 10),
      Entry("BTC", "", 5, 40, 0),
      Entry("Other", "", 1, 40, 0),
      Entry("Other", "", 5, 40, 0),
      Entry("BTC", "", 0, 40, 0),
      Entry("BTC", "", 1, 0, 0),
      Entry("BTC", "", 1, 40, 0 - 1) }

(***************************************************************************)
(* The single-writer ledger.                                               *)
(***************************************************************************)
Init ==
    /\ contributions = initial_contributions
    /\ transactions = <<>>
    /\ portfolio = initial_portfolio
    /\ now = Today
    /\ clock = <<14, 30, 0, 1>>
    /\ outcome = {}
    /\ files = [f \in Documents |-> "ok"]
    /\ file_size = [document \in Documents |->
                       json_dump_length(document, InitialDocument(document),
                                        IsoLength(clock))]
    /\ prices = NoPrices
    /\ pending = Idle
    /\ sessions = [w \in Writers |-> Idle]
    /\ report = NoReport

\* The pages that write, of both applications, on the directory
\* init_data_files made.  The report pages are in NextReports and the sample
\* data script, a program of its own run from the shell, in NextSample.
Next ==
    \/ show_contributions_page_quick_add /\ UNCHANGED surroundings
    \/ \E member \in MemberEntries, amount \in AmountEntries, date \in DateEntries :
          /\ show_contributions_page_add(member, amount, date, MaxContribs)
          /\ UNCHANGED surroundings
    \/ \E entry \in PurchaseEntries :
          show_buy_crypto_page(entry) /\ UNCHANGED surroundings
    \/ \E entry \in PurchaseEntries :
          show_record_purchases(entry) /\ UNCHANGED surroundings

Spec == Init /\ [][Next]_vars

(***************************************************************************)
(* The functions of app.py called directly.  add_contribution and          *)
(* add_transaction_with_date are what the pages call once their widgets    *)
(* and checks are passed; add_transaction has no caller.  All three are    *)
(* public functions of the module, open to a script or a shell that        *)
(* imports it, and none of them checks its arguments.                      *)
(***************************************************************************)
\* A call add_contribution(member, amount): the load, the creation of the
\* key when the member has none, the append of the record dated now, and
\* the save.
call_add_contribution(member, amount) ==
    /\ RecordCount(contributions) < MaxDirectContribs
    /\ contributions' = add_contribution(contributions, member, amount,
                                         IsoDateTime(now, clock))
    /\ outcome' = {"added"}
    /\ UNCHANGED <<transactions, portfolio, now, clock>>

\* A call add_transaction_with_date(crypto, amount, price, transaction_fee,
\* date): the two loads, the append of the "buy" record, the update of the
\* holdings, and the two saves.
call_add_transaction_with_date(crypto, amount, price, transaction_fee, date) ==
    LET saved == add_transaction_with_date(transactions, portfolio, crypto, amount,
                                           price, transaction_fee, date)
    IN  /\ Len(transactions) < MaxDirectTx
        /\ transactions' = saved.transactions
        /\ portfolio' = saved.portfolio
        /\ outcome' = {"recorded"}
        /\ UNCHANGED <<contributions, now, clock>>

\* Arguments of the direct calls of add_contribution: a registered member
\* with amounts of 50 and 0, and a name outside the registry with -5.
DirectContributions ==
    { [member |-> MEMBERS[1], amount |-> QuickAddAmount],
      [member |-> MEMBERS[1], amount |-> 0],
      [member |-> "Mallory", amount |-> 0 - 5] }

\* Arguments of the direct calls of add_transaction_with_date: one unit at
\* 40, then the same with no symbol, with no amount, with no price and with
\* a fee of -1.
DirectPurchases ==
    { [crypto |-> terms[1], amount |-> terms[2], price |-> terms[3],
       transaction_fee |-> terms[4]] :
          terms \in { <<"BTC", 1, 40, 0>>, <<"", 1, 40, 0>>, <<"BTC", 0, 40, 0>>,
                      <<"BTC", 1, 0, 0>>, <<"BTC", 1, 40, 0 - 1>> } }

\* A call add_transaction(crypto, amount, price, transaction_fee,
\* transaction_type): the two loads, the append, the update of the holdings
\* for a "buy", and the two saves.  It checks neither its arguments nor the
\* balance.
call_add_transaction(crypto, amount, price, transaction_fee, transaction_type) ==
    LET saved == add_transaction(transactions, portfolio, crypto, amount, price,
                                 transaction_fee, transaction_type)
    IN  /\ Len(transactions) < MaxDirectTx
        /\ transactions' = saved.transactions
        /\ portfolio' = saved.portfolio
        /\ outcome' = {"recorded"}
        /\ UNCHANGED <<contributions, now, clock>>

\* Arguments of the direct calls: either symbol, bought or sold, one unit at
\* 40 without a fee or three units at 7 with a fee of 2.
DirectCalls ==
    { [crypto |-> crypto, amount |-> terms[1], price |-> terms[2],
       transaction_fee |-> terms[3], transaction_type |-> transaction_type] :
          crypto \in {"BTC", "ADA"},
          terms \in {<<1, 40, 0>>, <<3, 7, 2>>},
          transaction_type \in {"buy", "sell"} }

\* The pages of app.py with one contributor, and the direct calls of the
\* three functions beside them.
NextDirect ==
    \/ /\ show_contributions_page_add(MEMBERS[1], QuickAddAmount, Today,
                                      MaxDirectContribs)
       /\ UNCHANGED surroundings
    \/ \E entry \in {Entry("BTC", "", 1, 40, 0), Entry("Other", "ada", 1, 40, 10)} :
          show_buy_crypto_page(entry) /\ UNCHANGED surroundings
    \/ \E call \in DirectCalls :
          /\ call_add_transaction(call.crypto, call.amount, call.price,
                                  call.transaction_fee, call.transaction_type)
          /\ UNCHANGED surroundings
    \/ \E call \in DirectContributions :
          /\ call_add_contribution(call.member, call.amount)
          /\ UNCHANGED surroundings
    \/ \E call \in DirectPurchases :
          /\ call_add_transaction_with_date(call.crypto, call.amount, call.price,
                                            call.transaction_fee, Today)
          /\ UNCHANGED surroundings

SpecDirect == Init /\ [][NextDirect]_vars

(***************************************************************************)
(* Ownership as the weekly performance report computes it (utils.py).      *)
(***************************************************************************)
\* contrib_this_week: sum(c["amount"] for c in member_contribs)
contrib_this_week(contribs, member) == SumAmounts(Get(contribs, member, <<>>))

\* total_contrib_this_week: the sum over every key of the document.
total_contrib_this_week(contribs) ==
    SumValues([k \in DOMAIN contribs |-> SumAmounts(contribs[k])])

\* ownership_this_week = (contrib / total * 100) if total > 0 else 0
ownership_this_week(contribs, member) ==
    IF total_contrib_this_week(contribs) > 0
      THEN Percent(contrib_this_week(contribs, member),
                   total_contrib_this_week(contribs))
      ELSE 0

(***************************************************************************)
(* The quantities the claims speak of.                                     *)
(***************************************************************************)
\* available_balance() of the specification: the pool minus the total cost
\* of all transaction records.
Balance(contribs, txs) == TotalPool(contribs) - TotalSpentAll(txs)

AvailableBalance == Balance(contributions, transactions)

\* Sum of unit amounts over the "buy" records of one asset.
BoughtAmount(txs, asset) ==
    SumSeq(Amounts(SelectSeq(txs, LAMBDA t : t.type = "buy" /\ t.crypto = asset)))

\* Asset symbols in the holdings map or in the ledger.
Assets == DOMAIN portfolio \cup {transactions[i].crypto : i \in 1..Len(transactions)}

\* The arguments record_purchase must refuse as malformed: empty symbol,
\* amount <= 0, price <= 0 or fee < 0.
MalformedPurchase(crypto, amount, price, transaction_fee) ==
    \/ crypto = ""
    \/ amount <= 0
    \/ price <= 0
    \/ transaction_fee < 0

\* A filling of the purchase form that is malformed.
Malformed(entry) ==
    MalformedPurchase(CryptoSymbol(entry.selected, entry.custom), entry.amount,
                      entry.price, entry.fee)

\* One run of a purchase handler, of either application.
RecordPurchase(entry) == show_buy_crypto_page(entry) \/ show_record_purchases(entry)

Last(s) == s[Len(s)]

\* C1: the available balance (pool minus the total cost of all transaction
\* records) is never negative, by either application's reckoning.
C1_BalanceNeverNegative ==
    /\ AvailableBalance >= 0
    /\ available_balance(contributions, transactions) >= 0
    /\ available_balance_modern(contributions, transactions) >= 0

\* A purchase has spent the pool to the last unit.
C1_Witness ==
    /\ outcome = {"recorded"}
    /\ TotalPool(contributions) > 0
    /\ AvailableBalance = 0

\* C2: a well-formed purchase whose total cost exceeds the available balance
\* is refused for want of balance and leaves the three ledgers, and so the
\* available balance, as they were.
C2_InsufficientBalanceNoChange ==
    [][LET bal == AvailableBalance
           bal_app == available_balance(contributions, transactions)
           bal_modern == available_balance_modern(contributions, transactions)
           refused == /\ UNCHANGED <<contributions, transactions, portfolio>>
                      /\ outcome' \cap {"balance", "no_balance"} # {}
                      /\ Balance(contributions', transactions') = bal
       IN  \A entry \in PurchaseEntries :
              ( /\ ~Malformed(entry)
                /\ TotalCost(entry.amount, entry.price, entry.fee) > bal
                /\ \/ buy_crypto_form(entry, bal_app)
                   \/ record_purchases_form(entry, bal_modern) )
              => refused]_vars

\* A purchase was refused although some balance is left and purchases exist.
C2_Witness ==
    /\ "balance" \in outcome
    /\ "symbol" \notin outcome
    /\ AvailableBalance > 0
    /\ Len(transactions) > 0

\* C3: a step that appends a transaction record appends exactly one, whose
\* total cost is amount * price + fee, and lowers the available balance (the
\* specification's and each application's) by exactly that total cost.
C3_BalanceDropsByTotalCost ==
    [][transactions' # transactions =>
          /\ Len(transactions') = Len(transactions) + 1
          /\ SubSeq(transactions', 1, Len(transactions)) = transactions
          /\ LET t == Last(transactions')
             IN  /\ t.total_cost = t.amount * t.price + t.transaction_fee
                 /\ t.total_cost > 0
                 /\ Balance(contributions', transactions') = AvailableBalance - t.total_cost
                 /\ available_balance(contributions', transactions')
                      = available_balance(contributions, transactions) - t.total_cost
                 /\ available_balance_modern(contributions', transactions')
                      = available_balance_modern(contributions, transactions)
                          - t.total_cost]_vars

\* A purchase with a fee was recorded after an earlier purchase.
C3_Witness ==
    /\ outcome = {"recorded"}
    /\ Len(transactions) = 2
    /\ Last(transactions).transaction_fee > 0

\* C4: for every asset the holdings map holds the sum of the amounts of the
\* asset's "buy" records (0 or no entry when there is none).
C4_HoldingsMatchLedger ==
    \A asset \in Assets : Get(portfolio, asset, 0) = BoughtAmount(transactions, asset)

\* An asset outside the initial map was bought twice, once through the page
\* and once by a direct call.
C4_Witness ==
    /\ Len(transactions) = 2
    /\ \A i \in 1..2 : transactions[i].crypto = "ADA" /\ transactions[i].type = "buy"
    /\ \E i \in 1..2 : "date" \in DOMAIN transactions[i]
    /\ \E i \in 1..2 : "date" \notin DOMAIN transactions[i]
    /\ Get(portfolio, "ADA", 0) = 2

\* Sum of the members' ownership percentages, in the order of MEMBERS.
SumOfPercentages(contribs) ==
    LET pct == calculate_ownership_percentages(contribs)
    IN  SumSeq([i \in 1..Len(MEMBERS) |-> pct[MEMBERS[i]]])

\* C5: whenever the pool is positive the members' ownership percentages sum
\* to 100, within one unit of rounding per member.
C5_PercentagesSumTo100 ==
    TotalPool(contributions) > 0 =>
        /\ SumOfPercentages(contributions) <= 100 * PctScale
        /\ SumOfPercentages(contributions) >= 100 * PctScale - Len(MEMBERS)

\* Contributions were recorded and the percentages do not divide evenly.
C5_Witness ==
    /\ outcome = {"added"}
    /\ TotalPool(contributions) > 0
    /\ SumOfPercentages(contributions) < 100 * PctScale
    /\ \E m \in MemberSet : calculate_total_contributions(contributions)[m] = 0

\* C6: with an empty pool every member's ownership percentage is 0, in the
\* ownership table and in the weekly report; and a member who contributed
\* nothing has 0 in any state.
C6_ZeroPoolZeroOwnership ==
    LET totals == calculate_total_contributions(contributions)
        pct == calculate_ownership_percentages(contributions)
    IN  \A m \in MemberSet :
          /\ TotalPool(contributions) = 0 =>
                (pct[m] = 0 /\ ownership_this_week(contributions, m) = 0)
          /\ totals[m] = 0 =>
                (pct[m] = 0 /\ ownership_this_week(contributions, m) = 0)

\* The purchase page was opened on an empty pool.
C6_Witness ==
    /\ outcome = {"no_balance"}
    /\ TotalPool(contributions) = 0

\* Every record of the contribution ledger has a positive amount and
\* belongs to a member of the registry.
ContributionsValid(contribs) ==
    /\ DOMAIN contribs \subseteq MemberSet
    /\ \A k \in DOMAIN contribs :
          \A i \in 1..Len(contribs[k]) : contribs[k][i].amount > 0

\* C7: a contribution with an amount <= 0 or for a name outside the registry
\* fails and leaves the contribution ledger unchanged, so every record of
\* the ledger has a positive amount and a registered member.  Stated of
\* add_contribution, which is what records a contribution, called by the
\* page or directly.
C7_ContributionValidation ==
    /\ []ContributionsValid(contributions)
    /\ [][\A call \in DirectContributions :
            ( /\ (call.amount <= 0 \/ call.member \notin MemberSet)
              /\ call_add_contribution(call.member, call.amount) )
            => ( /\ UNCHANGED <<contributions, transactions, portfolio>>
                 /\ outcome' # {"added"} )]_vars

\* C8: a purchase with an empty symbol, an amount <= 0, a price <= 0 or a
\* fee < 0 fails: the attempt appends no transaction record and leaves the
\* holdings map (and the contributions) unchanged.  Stated of the purchase
\* pages with what their widgets can hold, and of
\* add_transaction_with_date, which is what records a purchase, called
\* directly.
C8_PurchaseValidation ==
    [][LET bal_app == available_balance(contributions, transactions)
           bal_modern == available_balance_modern(contributions, transactions)
           refused == /\ UNCHANGED <<contributions, transactions, portfolio>>
                      /\ outcome' # {}
                      /\ outcome' \cap {"recorded", "added"} = {}
       IN  /\ \A entry \in PurchaseEntries :
                ( /\ Malformed(entry)
                  /\ \/ buy_crypto_form(entry, bal_app)
                     \/ record_purchases_form(entry, bal_modern) )
                => refused
           /\ \A call \in DirectPurchases :
                ( /\ MalformedPurchase(call.crypto, call.amount, call.price,
                                       call.transaction_fee)
                  /\ call_add_transaction_with_date(call.crypto, call.amount,
                                                    call.price, call.transaction_fee,
                                                    Today) )
                => refused]_vars

\* The pages alone: a filling of the purchase form without a symbol
\* is answered with the symbol message and a disabled button, and records
\* nothing; the widgets hold no amount or price <= 0 and no fee < 0.
PagesRefuseMalformed ==
    [][LET bal_app == available_balance(contributions, transactions)
           bal_modern == available_balance_modern(contributions, transactions)
       IN  \A entry \in PurchaseEntries :
              ( /\ Malformed(entry)
                /\ \/ buy_crypto_form(entry, bal_app)
                   \/ record_purchases_form(entry, bal_modern) )
              => ( /\ UNCHANGED <<contributions, transactions, portfolio>>
                   /\ outcome' \cap {"symbol", "no_balance"} # {} )]_vars

(***************************************************************************)
(* Contribution streak (utils.py).                                         *)
(***************************************************************************)
\* a["date"] >= b["date"], the strings compared: within one day a string
\* without a time of day is a prefix of, and so less than, one with a time
\* of day, and two strings with a time of day compare as their times do.
DateStringNotLess(a, b) ==
    \/ a.date > b.date
    \/ /\ a.date = b.date
       /\ \/ b.time = <<>>
          \/ a.time # <<>> /\ NotAfter(b, [day |-> a.date, time |-> a.time])

\* Insertion of one record into a list sorted by date, latest first, behind
\* the records of the same date (sorted() is stable, also with reverse=True).
RECURSIVE InsertByDateDesc(_, _)
InsertByDateDesc(sorted, record) ==
    IF sorted = <<>> THEN <<record>>
    ELSE IF DateStringNotLess(sorted[1], record)
           THEN <<sorted[1]>> \o InsertByDateDesc(Tail(sorted), record)
           ELSE <<record>> \o sorted

\* sorted(member_contribs, key=lambda x: x["date"], reverse=True)
RECURSIVE SortedByDateDesc(_)
SortedByDateDesc(records) ==
    IF records = <<>> THEN <<>>
    ELSE InsertByDateDesc(SortedByDateDesc(SubSeq(records, 1, Len(records) - 1)),
                          records[Len(records)])

\* The loop of get_contribution_streak from the i-th record on.
RECURSIVE StreakLoop(_, _, _, _, _)
StreakLoop(sorted_contribs, i, streak, current_week, current_year) ==
    IF i > Len(sorted_contribs) THEN streak
    ELSE LET contrib_week == IsoWeek(sorted_contribs[i].date)
             contrib_year == YearOf(sorted_contribs[i].date)
             rolled == current_week - streak <= 0
             expected_week == IF rolled THEN current_week - streak + 52
                                        ELSE current_week - streak
             expected_year == IF rolled THEN current_year - 1 ELSE current_year
         IN  IF contrib_week = expected_week /\ contrib_year = expected_year
               THEN StreakLoop(sorted_contribs, i + 1, streak + 1,
                               current_week, current_year)
               ELSE streak

\* get_contribution_streak(member, contributions), run on the day today.
get_contribution_streak(member, contribs, today) ==
    LET member_contribs == Get(contribs, member, <<>>)
    IN  IF member_contribs = <<>> THEN 0
        ELSE StreakLoop(SortedByDateDesc(member_contribs), 1, 0,
                        IsoWeek(today), YearOf(today))

(***************************************************************************)
(* The streak on its own: one member contributes on days around now.       *)
(***************************************************************************)
\* Days the streak is computed on: the middle of a year; the first week
\* after a 52-week and after a 53-week ISO year; a Saturday of January in
\* the last ISO week of the year before; a 30 December in ISO week 1 of
\* the year after.
StreakNows ==
    { Today,
      Ordinal(2023, 1, 4),
      Ordinal(2021, 1, 6),
      Ordinal(2021, 1, 2),
      Ordinal(2024, 12, 30) }

\* Contribution dates, in days from now: today, two days ago, one and two
\* weeks ago, and a week ahead.
StreakOffsets == {0, 0 - 2, 0 - 7, 0 - 14, 7}

StreakMember == MEMBERS[1]

InitStreak ==
    /\ contributions = initial_contributions
    /\ transactions = <<>>
    /\ portfolio = initial_portfolio
    /\ now \in StreakNows
    /\ clock = <<14, 30, 0, 1>>
    /\ outcome = {}
    /\ files = [f \in Documents |-> "ok"]
    /\ file_size = [document \in Documents |->
                       json_dump_length(document, InitialDocument(document),
                                        IsoLength(clock))]
    /\ prices = NoPrices
    /\ pending = Idle
    /\ sessions = [w \in Writers |-> Idle]
    /\ report = NoReport

NextStreak ==
    \E offset \in StreakOffsets :
        /\ show_contributions_page_add(StreakMember, QuickAddAmount, now + offset,
                                       MaxStreakContribs)
        /\ UNCHANGED surroundings

SpecStreak == InitStreak /\ [][NextStreak]_vars

\* The Monday of the ISO week of a day.
WeekStart(o) == o - Weekday(o)

\* date.isocalendar()[0]: the year of the Thursday of the week.
IsoYear(o) == YearOf(WeekStart(o) + 3)

\* Mondays of the weeks in which the member contributed.
ContributionWeeks(contribs, member) ==
    {WeekStart(Get(contribs, member, <<>>)[i].date) :
        i \in 1..Len(Get(contribs, member, <<>>))}

\* Consecutive weeks with a contribution, from the week of Monday w backward.
RECURSIVE WeeksBack(_, _)
WeeksBack(weeks, w) == IF w \in weeks THEN 1 + WeeksBack(weeks, w - 7) ELSE 0

\* The streak the specification defines.
ConsecutiveWeeks(contribs, member, today) ==
    WeeksBack(ContributionWeeks(contribs, member), WeekStart(today))

\* C9: in the middle of a year, the streak is the number of consecutive ISO
\* weeks with at least one contribution, counted back from the current week,
\* whatever the contribution dates (several in a week, or after this week).
C9_StreakCountsWeeks ==
    now = Today =>
        get_contribution_streak(StreakMember, contributions, now)
            = ConsecutiveWeeks(contributions, StreakMember, now)

\* The member contributed once in each of the weeks counted, none of them
\* later than the current week.
OnePerWeek(contribs, member, today) ==
    LET records == Get(contribs, member, <<>>)
    IN  /\ records # <<>>
        /\ Cardinality(ContributionWeeks(contribs, member)) = Len(records)
        /\ ConsecutiveWeeks(contribs, member, today) = Len(records)

\* The weeks counted lie in two ISO years.
AcrossYearBoundary(contribs, member, today) ==
    \E i \in 1..Len(Get(contribs, member, <<>>)) :
        IsoYear(Get(contribs, member, <<>>)[i].date) # IsoYear(today)

\* C10: a member with exactly one contribution in every week from the
\* current week back across a year boundary has a streak of that many weeks.
C10_StreakAcrossYearBoundary ==
    ( /\ OnePerWeek(contributions, StreakMember, now)
      /\ AcrossYearBoundary(contributions, StreakMember, now) )
    => get_contribution_streak(StreakMember, contributions, now)
         = Len(contributions[StreakMember])

(***************************************************************************)
(* Weekly performance (utils.py).                                          *)
(***************************************************************************)
\* one_week_ago = now - timedelta(days=7)
one_week_ago(today) == IsoDateTime(today.day - 7, today.time)

\* The records with datetime.fromisoformat(c["date"]) <= one_week_ago, today
\* being datetime.now().  A date of the contribution form is the midnight of
\* its day; a date of the quick add has the time of day it was written at,
\* and seven days later it is inside the cut only from that time of day on.
UpToLastWeek(records, today) ==
    SelectSeq(records, LAMBDA c : NotAfter(c, one_week_ago(today)))

\* contrib_last_week
contrib_last_week(contribs, member, today) ==
    SumAmounts(UpToLastWeek(Get(contribs, member, <<>>), today))

\* total_contrib_last_week: the same cut over every key of the document.
total_contrib_last_week(contribs, today) ==
    SumValues([k \in DOMAIN contribs |-> SumAmounts(UpToLastWeek(contribs[k], today))])

\* ownership_last_week = (contrib / total * 100) if total > 0 else 0
ownership_last_week(contribs, member, today) ==
    IF total_contrib_last_week(contribs, today) > 0
      THEN Percent(contrib_last_week(contribs, member, today),
                   total_contrib_last_week(contribs, today))
      ELSE 0

\* A faulty variant: last week's share taken of the pool of all records.
calculate_weekly_performance_uncut_pool(contribs, today) ==
    [member \in DOMAIN contribs |->
        [contributions_added |->
            contrib_this_week(contribs, member)
                - contrib_last_week(contribs, member, today),
         ownership_change |->
            ownership_this_week(contribs, member)
                - (IF total_contrib_this_week(contribs) > 0
                     THEN Percent(contrib_last_week(contribs, member, today),
                                  total_contrib_this_week(contribs))
                     ELSE 0),
         current_ownership |-> ownership_this_week(contribs, member)]]

\* calculate_weekly_performance(contributions, transactions, prices), run at
\* the moment today; it reads neither the transactions nor the prices.
calculate_weekly_performance(contribs, today) ==
    [member \in DOMAIN contribs |->
        [contributions_added |->
            contrib_this_week(contribs, member)
                - contrib_last_week(contribs, member, today),
         ownership_change |->
            ownership_this_week(contribs, member)
                - ownership_last_week(contribs, member, today),
         current_ownership |-> ownership_this_week(contribs, member)]]

(***************************************************************************)
(* Dated contributions: the quick add and one member contributing on days  *)
(* around now, while the weeks pass.                                       *)
(***************************************************************************)
\* Contribution dates, in days from now: today (a Wednesday), the Friday
\* before, and the Wednesday a week ago.
DatedOffsets == {0, 0 - 5, 0 - 7}

\* A week passes between two runs of the script; the next run is at one of
\* the times of day.
a_week_passes ==
    /\ now + 7 <= Today + 7 * MaxWeeks
    /\ now' = now + 7
    /\ clock' \in ClockTimes
    /\ outcome' = {"a_week_later"}
    /\ UNCHANGED <<contributions, transactions, portfolio>>

NextDated ==
    \/ show_contributions_page_quick_add /\ UNCHANGED surroundings
    \/ \E member \in {MEMBERS[1]}, amount \in {25}, offset \in DatedOffsets :
          /\ show_contributions_page_add(member, amount, now + offset, MaxDatedContribs)
          /\ UNCHANGED surroundings
    \/ a_week_passes /\ UNCHANGED surroundings

SpecDated == Init /\ [][NextDated]_vars

\* Sum of the amounts of the first n records that are dated up to cutoff.
RECURSIVE TotalUpTo(_, _, _)
TotalUpTo(records, n, cutoff) ==
    IF n = 0 THEN 0
    ELSE TotalUpTo(records, n - 1, cutoff)
           + (IF NotAfter(records[n], cutoff) THEN records[n].amount ELSE 0)

\* A member's total over the records dated up to cutoff.
MemberTotalUpTo(contribs, member, cutoff) ==
    TotalUpTo(Get(contribs, member, <<>>), Len(Get(contribs, member, <<>>)), cutoff)

\* The pool over the records dated up to cutoff: every member cut alike.
RECURSIVE PoolUpTo(_, _, _)
PoolUpTo(contribs, n, cutoff) ==
    IF n = 0 THEN 0
    ELSE PoolUpTo(contribs, n - 1, cutoff) + MemberTotalUpTo(contribs, MEMBERS[n], cutoff)

\* ownership_pct of a snapshot; 0 for an empty pool.
ShareUpTo(contribs, member, cutoff) ==
    IF PoolUpTo(contribs, Len(MEMBERS), cutoff) = 0 THEN 0
    ELSE Percent(MemberTotalUpTo(contribs, member, cutoff),
                 PoolUpTo(contribs, Len(MEMBERS), cutoff))

\* A moment after every record.
Forever == IsoDate(Ordinal(9999, 12, 31))

\* as_of - 7 days: the same time of day, seven days before now.
SevenDaysAgo == IsoDateTime(now - 7, clock)

\* C11: for every member the weekly report gives contributions_added = total
\* over all records minus total over the records dated up to seven days ago,
\* current_ownership = the share of the pool over all records, and
\* ownership_change = that share minus the share at the cut-off, where the
\* pool is cut at the same boundary for every member and an empty pool
\* gives 0.
C11_WeeklyDelta ==
    \A member \in MemberSet :
        LET delta == calculate_weekly_performance(contributions, datetime_now)[member]
        IN  /\ delta.contributions_added
                  = MemberTotalUpTo(contributions, member, Forever)
                      - MemberTotalUpTo(contributions, member, SevenDaysAgo)
            /\ delta.current_ownership = ShareUpTo(contributions, member, Forever)
            /\ delta.ownership_change
                  = ShareUpTo(contributions, member, Forever)
                      - ShareUpTo(contributions, member, SevenDaysAgo)

\* A quick add of 50 for all at 14:30:00.000001, and a week later at 14:10
\* 25 more for the first member, dated that day: the quick-add records are
\* seven days old by the day and not yet by the time of day, so the cut is
\* empty, contributions_added is 75 and ownership_change is the whole
\* current_ownership of 75 in 225.
C11_Witness ==
    LET delta == calculate_weekly_performance(contributions, datetime_now)[MEMBERS[1]]
    IN  /\ outcome = {"added"}
        /\ clock = <<14, 10, 0, 0>>
        /\ MemberTotalUpTo(contributions, MEMBERS[1], Forever) = 75
        /\ PoolUpTo(contributions, Len(MEMBERS), Forever) = 225
        /\ PoolUpTo(contributions, Len(MEMBERS), SevenDaysAgo) = 0
        /\ \E i \in 1..Len(contributions[MEMBERS[1]]) :
               /\ contributions[MEMBERS[1]][i].date = now - 7
               /\ contributions[MEMBERS[1]][i].time = <<14, 30, 0, 1>>
        /\ delta.contributions_added = 75
        /\ delta.current_ownership = Percent(75, 225)
        /\ delta.ownership_change = Percent(75, 225)

(***************************************************************************)
(* Contribution heatmap (utils.py).                                        *)
(***************************************************************************)
\* all_dates, as a set: the days of all contributions of all members.
all_dates(contribs) ==
    UNION {{contribs[k][i].date : i \in 1..Len(contribs[k])} : k \in DOMAIN contribs}

\* min(all_dates), max(all_dates)
min_date(contribs) ==
    CHOOSE d \in all_dates(contribs) : \A e \in all_dates(contribs) : d <= e
max_date(contribs) ==
    CHOOSE d \in all_dates(contribs) : \A e \in all_dates(contribs) : d >= e

\* The while loop over current_date: the Monday of the week of current_date,
\* then seven days on, as long as current_date <= max_date.
RECURSIVE WeeklyBuckets(_, _)
WeeklyBuckets(current_date, last_date) ==
    IF current_date <= last_date
      THEN <<current_date - Weekday(current_date)>>
             \o WeeklyBuckets(current_date + 7, last_date)
      ELSE <<>>

\* week_contrib: the member's amounts dated week_start..week_start + 6 days.
week_contrib(member_contribs, week_start) ==
    SumAmounts(SelectSeq(member_contribs,
                         LAMBDA c : week_start <= c.date /\ c.date <= week_start + 6))

\* create_contribution_heatmap(contributions): the weeks and the matrix z of
\* the figure, one row per key of the document; the empty figure has neither.
create_contribution_heatmap(contribs) ==
    IF all_dates(contribs) = {}
      THEN [weeks |-> <<>>, z |-> <<>>]
      ELSE LET weeks == WeeklyBuckets(min_date(contribs), max_date(contribs))
           IN  [weeks |-> weeks,
                z |-> [member \in DOMAIN contribs |->
                          [i \in 1..Len(weeks) |->
                              week_contrib(contribs[member], weeks[i])]]]

\* Sum of a member's row of the heatmap; 0 when the figure has no such row.
RowSum(heatmap, member) ==
    IF member \in DOMAIN heatmap.z THEN SumSeq(heatmap.z[member]) ELSE 0

\* C12: the week bins of the heatmap hold every contribution exactly once:
\* for every member the sum of the member's row equals the member's total
\* contributions, whatever weekdays the earliest and latest dates fall on.
C12_HeatmapRowsSumToTotals ==
    \A member \in MemberSet :
        RowSum(create_contribution_heatmap(contributions), member)
            = calculate_total_contributions(contributions)[member]

(***************************************************************************)
(* Price snapshots and return on investment (app.py, utils.py).            *)
(***************************************************************************)
\* The dict get_crypto_prices returns in its except branch.
FALLBACK_PRICES == [c \in {"BTC", "ETH"} |-> IF c = "BTC" THEN 97500 ELSE 5250]

\* The dict get_crypto_prices returns for prices the oracle answered.
LivePrices(btc, eth) == [c \in {"BTC", "ETH"} |-> IF c = "BTC" THEN btc ELSE eth]

\* Snapshots the pages are rendered with: the fallback and two live ones.
PriceSnapshots == {FALLBACK_PRICES, LivePrices(48, 30), LivePrices(30, 50)}

\* crypto_stats before the loop.
initial_crypto_stats == [c \in {"BTC", "ETH"} |-> [invested |-> 0, amount |-> 0]]

\* crypto_stats after the first n transactions; error is "KeyError" from the
\* first buy of a symbol that is no key of crypto_stats.
RECURSIVE crypto_stats(_, _)
crypto_stats(txs, n) ==
    IF n = 0 THEN [error |-> "", stats |-> initial_crypto_stats]
    ELSE LET before == crypto_stats(txs, n - 1)
             tx == txs[n]
         IN  IF before.error # "" \/ tx.type # "buy" THEN before
             ELSE IF tx.crypto \notin DOMAIN before.stats
               THEN [error |-> "KeyError", stats |-> before.stats]
               ELSE [error |-> "",
                     stats |-> [before.stats EXCEPT ![tx.crypto] =
                                  [invested |-> @.invested + tx.total_cost,
                                   amount |-> @.amount + tx.amount]]]

\* ((current_value - invested) / invested) * 100, in whole percent.
roi_percentage(current_value, invested) ==
    ((current_value - invested) * 100) \div invested

\* calculate_roi_by_crypto(transactions, prices): roi_data, or the KeyError
\* the function raises.
calculate_roi_by_crypto(txs, snapshot) ==
    LET counted == crypto_stats(txs, Len(txs))
        invested_in == {c \in DOMAIN counted.stats : counted.stats[c].invested > 0}
    IN  IF counted.error # "" THEN [error |-> counted.error, roi_data |-> <<>>]
        ELSE IF \E c \in invested_in : c \notin DOMAIN snapshot
          THEN [error |-> "KeyError", roi_data |-> <<>>]
          ELSE [error |-> "",
                roi_data |->
                  [c \in invested_in |->
                     [invested |-> counted.stats[c].invested,
                      current_value |-> counted.stats[c].amount * snapshot[c],
                      roi_percentage |->
                          roi_percentage(counted.stats[c].amount * snapshot[c],
                                         counted.stats[c].invested),
                      amount_held |-> counted.stats[c].amount]]]

\* Sum of total_cost over the "buy" records of one asset.
InvestedIn(txs, asset) ==
    SumSeq(TotalCosts(SelectSeq(txs, LAMBDA t : t.type = "buy" /\ t.crypto = asset)))

\* What roi reports for one asset with invested > 0 under one snapshot.
RoiReports(txs, snapshot, asset) ==
    LET roi == calculate_roi_by_crypto(txs, snapshot)
    IN  /\ roi.error = ""
        /\ asset \in DOMAIN roi.roi_data
        /\ roi.roi_data[asset].invested = InvestedIn(txs, asset)
        /\ roi.roi_data[asset].amount_held = BoughtAmount(txs, asset)
        /\ asset \in DOMAIN snapshot =>
              /\ roi.roi_data[asset].current_value
                    = BoughtAmount(txs, asset) * snapshot[asset]
              /\ roi.roi_data[asset].roi_percentage
                    = ((BoughtAmount(txs, asset) * snapshot[asset]
                          - InvestedIn(txs, asset)) * 100)
                        \div InvestedIn(txs, asset)

\* What roi does with an asset whose invested total is 0: it is absent.
RoiOmits(txs, snapshot, asset) ==
    LET roi == calculate_roi_by_crypto(txs, snapshot)
    IN  roi.error = "" /\ asset \notin DOMAIN roi.roi_data

\* C13: under every snapshot, roi reports for every asset with invested > 0
\* the invested total, the amount held, current_value = amount_held * price
\* and roi_pct = (current_value - invested) / invested * 100, and an asset
\* with nothing invested is absent from the result.
C13_RoiPerAsset ==
    \A snapshot \in PriceSnapshots : \A asset \in Assets :
        IF InvestedIn(transactions, asset) > 0
          THEN RoiReports(transactions, snapshot, asset)
          ELSE RoiOmits(transactions, snapshot, asset)

\* C14: on every ledger reached through accepted contributions and
\* purchases, and under every snapshot, roi returns a result.
C14_RoiNeverFails ==
    \A snapshot \in PriceSnapshots :
        calculate_roi_by_crypto(transactions, snapshot).error = ""

(***************************************************************************)
(* Valuation on the dashboards (app.py, app_modern.py).                    *)
(***************************************************************************)
\* calculate_portfolio_value(portfolio, prices) of app.py: prices.get(crypto, 0)
calculate_portfolio_value(pf, snapshot) ==
    SumValues([c \in DOMAIN pf |->
                  IF pf[c] > 0 THEN pf[c] * Get(snapshot, c, 0) ELSE 0])

\* calculate_portfolio_value(portfolio, prices) of app_modern.py: an asset
\* is added if amount > 0 and crypto in prices.
calculate_portfolio_value_modern(pf, snapshot) ==
    SumValues([c \in DOMAIN pf |->
                  IF pf[c] > 0 /\ c \in DOMAIN snapshot THEN pf[c] * snapshot[c] ELSE 0])

\* holdings_data of show_dashboard of app.py: one row per asset held; priced
\* is FALSE for the row that reads "Price not available".
holdings_data(pf, snapshot) ==
    [c \in {a \in DOMAIN pf : pf[a] > 0} |->
        IF c \in DOMAIN snapshot
          THEN [amount |-> pf[c], priced |-> TRUE, total_value |-> pf[c] * snapshot[c]]
          ELSE [amount |-> pf[c], priced |-> FALSE, total_value |-> 0]]

\* What show_dashboard of app.py shows of the valuation: the total and the
\* assets whose row reads "Price not available".
show_dashboard_valuation(pf, snapshot) ==
    [portfolio_value |-> calculate_portfolio_value(pf, snapshot),
     unpriced |-> {c \in DOMAIN holdings_data(pf, snapshot) :
                      ~holdings_data(pf, snapshot)[c].priced}]

\* What show_dashboard of app_modern.py shows of the valuation: the total;
\* the breakdown leaves out an asset without a price and nothing names it.
show_dashboard_valuation_modern(pf, snapshot) ==
    [portfolio_value |-> calculate_portfolio_value_modern(pf, snapshot),
     unpriced |-> {}]

\* Assets held in a positive quantity without a price in the snapshot.
HeldUnpriced(pf, snapshot) == {c \in DOMAIN pf : pf[c] > 0 /\ c \notin DOMAIN snapshot}

\* Sum over the holdings of quantity * snapshot price, 0 without a price.
ValueOfHoldings(pf, snapshot) ==
    SumValues([c \in DOMAIN pf |-> IF c \in DOMAIN snapshot THEN pf[c] * snapshot[c] ELSE 0])

\* A valuation that is the sum over the holdings and flags every asset held
\* without a price.
ValuedAndFlagged(valuation, pf, snapshot) ==
    /\ valuation.portfolio_value = ValueOfHoldings(pf, snapshot)
    /\ HeldUnpriced(pf, snapshot) \subseteq valuation.unpriced

\* C15: under every snapshot the valuation of either dashboard is the sum of
\* quantity * price over the holdings, an asset without a price counting 0,
\* and it flags every asset held without a price.
C15_ValuationFlagsUnpriced ==
    \A snapshot \in PriceSnapshots :
        /\ ValuedAndFlagged(show_dashboard_valuation(portfolio, snapshot),
                            portfolio, snapshot)
        /\ ValuedAndFlagged(show_dashboard_valuation_modern(portfolio, snapshot),
                            portfolio, snapshot)

(***************************************************************************)
(* Member equity on the dashboards (app.py, app_modern.py).                *)
(***************************************************************************)
\* portfolio_share = (ownership_pct / 100) * portfolio_value
\*                   if portfolio_value > 0 else 0
\* with ownership_pct in fixed point: the share is in units of
\* 1 / (100 * PctScale) of the currency.
portfolio_share(ownership_pct, portfolio_value) ==
    IF portfolio_value > 0 THEN ownership_pct * portfolio_value ELSE 0

\* A faulty variant: the portfolio split evenly among the members.
member_data_even_split(contribs, pf, snapshot) ==
    [member \in MemberSet |->
        [total_contrib |-> Get(calculate_total_contributions(contribs), member, 0),
         ownership_pct |-> Get(calculate_ownership_percentages(contribs), member, 0),
         portfolio_share |->
            portfolio_share(Percent(1, Len(MEMBERS)),
                            calculate_portfolio_value(pf, snapshot))]]

\* A faulty variant: the shares taken of the largest member total.
member_data_of_largest(contribs, pf, snapshot) ==
    [member \in MemberSet |->
        [total_contrib |-> Get(calculate_total_contributions(contribs), member, 0),
         ownership_pct |->
            Get(calculate_ownership_percentages_of_largest(contribs), member, 0),
         portfolio_share |->
            portfolio_share(
                Get(calculate_ownership_percentages_of_largest(contribs), member, 0),
                calculate_portfolio_value(pf, snapshot))]]

\* member_data of show_dashboard of app.py: one row per member of MEMBERS.
member_data(contribs, pf, snapshot) ==
    LET portfolio_value == calculate_portfolio_value(pf, snapshot)
        total_contributions == calculate_total_contributions(contribs)
        ownership_percentages == calculate_ownership_percentages(contribs)
    IN  [member \in MemberSet |->
            [total_contrib |-> Get(total_contributions, member, 0),
             ownership_pct |-> Get(ownership_percentages, member, 0),
             portfolio_share |->
                portfolio_share(Get(ownership_percentages, member, 0),
                                portfolio_value)]]

\* The member cards of show_dashboard of app_modern.py.
member_details_modern(contribs, pf, snapshot) ==
    LET portfolio_value == calculate_portfolio_value_modern(pf, snapshot)
        total_contributions == calculate_total_contributions(contribs)
        ownership_percentages == calculate_ownership_percentages(contribs)
    IN  [member \in MemberSet |->
            [total_contrib |-> Get(total_contributions, member, 0),
             ownership_pct |-> Get(ownership_percentages, member, 0),
             portfolio_share |->
                portfolio_share(Get(ownership_percentages, member, 0),
                                portfolio_value)]]

\* Snapshots of live prices; with them the products of a percentage and a
\* portfolio value stay within the integers of the model checker.
LiveSnapshots == PriceSnapshots \ {FALLBACK_PRICES}

\* The member's share of the pool, in fixed point; 0 for an empty pool.
OwnershipPct(contribs, member) ==
    IF TotalPool(contribs) = 0 THEN 0
    ELSE Percent(SumAmounts(Get(contribs, member, <<>>)), TotalPool(contribs))

\* C16: under every snapshot and for every member, on either dashboard,
\* equity_value = ownership_pct / 100 * portfolio_value, and it is 0 when
\* the portfolio value is 0 whatever the ownership percentage.
C16_EquityIsShareOfValue ==
    \A snapshot \in LiveSnapshots :
        LET value == ValueOfHoldings(portfolio, snapshot)
            table == member_data(contributions, portfolio, snapshot)
            table_modern == member_details_modern(contributions, portfolio, snapshot)
        IN  \A member \in MemberSet :
              LET equity == table[member]
                  equity_modern == table_modern[member]
              IN  /\ equity.portfolio_share = OwnershipPct(contributions, member) * value
                  /\ equity_modern.portfolio_share
                        = OwnershipPct(contributions, member) * value
                  /\ value = 0 =>
                        equity.portfolio_share = 0 /\ equity_modern.portfolio_share = 0

\* Two members own unequal shares; under one snapshot the holdings are worth
\* something and the first member's equity is a positive part of it; the
\* fourth member, who contributed nothing, has none.
C16_Witness ==
    /\ outcome = {"recorded"}
    /\ OwnershipPct(contributions, MEMBERS[1]) > OwnershipPct(contributions, MEMBERS[2])
    /\ OwnershipPct(contributions, MEMBERS[2]) > 0
    /\ \E snapshot \in LiveSnapshots :
          LET equity == member_data(contributions, portfolio, snapshot)
          IN  /\ ValueOfHoldings(portfolio, snapshot) > 0
              /\ equity[MEMBERS[1]].portfolio_share > equity[MEMBERS[2]].portfolio_share
              /\ equity[MEMBERS[2]].portfolio_share > 0
              /\ equity[MEMBERS[4]].portfolio_share = 0

(***************************************************************************)
(* The price fetch (app.py; app_modern.py holds the same code).            *)
(***************************************************************************)
\* What requests.get(url, timeout=10) ends with: an exception of requests
\* ("connection_error", "timeout"), a status raise_for_status() raises on
\* ("http_error"), a body response.json() cannot parse ("invalid_json"), or
\* a parsed body ("json") with data: coin id -> currency -> price.
OracleResponse(kind, data) == [kind |-> kind, data |-> data]

\* The body of a complete answer.
PriceData(btc, eth) ==
    [coin \in {"bitcoin", "ethereum"} |->
        [currency \in {"aud"} |-> IF coin = "bitcoin" THEN btc ELSE eth]]

\* Answers of the oracle: two complete ones (the second with the very prices
\* of the fallback), the four failures of the request, and bodies without
\* "ethereum", without the "aud" of bitcoin, and without anything.
OracleResponses ==
    { OracleResponse("json", PriceData(48, 30)),
      OracleResponse("json", PriceData(97500, 5250)),
      OracleResponse("connection_error", <<>>),
      OracleResponse("timeout", <<>>),
      OracleResponse("http_error", <<>>),
      OracleResponse("invalid_json", <<>>),
      OracleResponse("json", [coin \in {"bitcoin"} |-> [currency \in {"aud"} |-> 48]]),
      OracleResponse("json", [coin \in {"bitcoin", "ethereum"} |->
                                IF coin = "bitcoin" THEN <<>>
                                ELSE [currency \in {"aud"} |-> 30]]),
      OracleResponse("json", <<>>) }

\* Whether the try block of get_crypto_prices raises: the request, the status
\* check or the parse fail, or data["bitcoin"]["aud"] or
\* data["ethereum"]["aud"] is a KeyError.
TryRaises(response) ==
    \/ response.kind # "json"
    \/ "bitcoin" \notin DOMAIN response.data
    \/ "aud" \notin DOMAIN response.data["bitcoin"]
    \/ "ethereum" \notin DOMAIN response.data
    \/ "aud" \notin DOMAIN response.data["ethereum"]

\* A faulty variant: the exception handled without a fallback.
get_crypto_prices_without_fallback(response) ==
    IF TryRaises(response)
      THEN [prices |-> <<>>, error |-> TRUE]
      ELSE [prices |-> LivePrices(response.data["bitcoin"]["aud"],
                                  response.data["ethereum"]["aud"]),
            error |-> FALSE]

\* get_crypto_prices(): the dict returned, and whether st.error was called.
get_crypto_prices(response) ==
    IF TryRaises(response)
      THEN [prices |-> FALLBACK_PRICES, error |-> TRUE]
      ELSE [prices |-> LivePrices(response.data["bitcoin"]["aud"],
                                  response.data["ethereum"]["aud"]),
            error |-> FALSE]

\* prices = get_crypto_prices() of main(), for one answer of the oracle:
\* every run of the script calls it once, before the page.
main_get_crypto_prices(response) ==
    /\ prices' = get_crypto_prices(response).prices
    /\ UNCHANGED <<now, clock, files, file_size, pending, sessions, report>>

\* What the fetch leaves on the page: the st.error message, or nothing.
price_messages(response) ==
    IF get_crypto_prices(response).error THEN {"price_error"} ELSE {"prices"}

\* A run of main() on the Dashboard: the fetch, then a page that writes
\* nothing.
main_show_dashboard(response) ==
    /\ main_get_crypto_prices(response)
    /\ outcome' = price_messages(response)
    /\ UNCHANGED <<contributions, transactions, portfolio>>

\* A run of main() on "Add Contributions" with the quick add pressed.
main_show_contributions_page_quick_add(response) ==
    /\ main_get_crypto_prices(response)
    /\ RecordCount(contributions) + Len(MEMBERS) <= MaxContribs
    /\ contributions' = AddForAll(contributions, 1, QuickAddAmount,
                                  IsoDateTime(now, clock))
    /\ outcome' = price_messages(response) \cup {"added"}
    /\ UNCHANGED <<transactions, portfolio>>

\* A run of main() on "Add Contributions" with "Add Contribution" pressed.
main_show_contributions_page_add(response, member, amount, date) ==
    /\ main_get_crypto_prices(response)
    /\ ContributionFormAccepts(member, amount)
    /\ RecordCount(contributions) < MaxContribs
    /\ contributions' = add_contribution(contributions, member, amount,
                                         IsoDate(date))
    /\ outcome' = price_messages(response) \cup {"added"}
    /\ UNCHANGED <<transactions, portfolio>>

\* The application with its price fetch and its contribution page: every
\* step is one run of main().
NextPrices ==
    \/ \E response \in OracleResponses : main_show_dashboard(response)
    \/ \E response \in OracleResponses :
          main_show_contributions_page_quick_add(response)
    \/ \E response \in OracleResponses, member \in MemberEntries,
           amount \in AmountEntries, date \in DateEntries :
          main_show_contributions_page_add(response, member, amount, date)

SpecPrices == Init /\ [][NextPrices]_vars

\* The oracle failed: request error, timeout, bad status, malformed body, or
\* a body without the price of BTC or of ETH.
OracleFailed(response) ==
    \/ response.kind \in {"connection_error", "timeout", "http_error", "invalid_json"}
    \/ \E coin \in {"bitcoin", "ethereum"} :
          \/ coin \notin DOMAIN response.data
          \/ "aud" \notin DOMAIN response.data[coin]

\* A snapshot with a positive price for BTC and for ETH.
Usable(snapshot) ==
    /\ {"BTC", "ETH"} \subseteq DOMAIN snapshot
    /\ snapshot["BTC"] > 0
    /\ snapshot["ETH"] > 0

\* C17: whatever the oracle answers, the price fetch of a run returns a
\* snapshot with a price for BTC and for ETH, and after any failure of the
\* oracle that snapshot is the static fallback {BTC: 97500, ETH: 5250}.
C17_PriceFetchFallsBack ==
    [][\A response \in OracleResponses :
          main_get_crypto_prices(response) =>
              /\ Usable(prices')
              /\ OracleFailed(response) => prices' = FALLBACK_PRICES]_vars

\* A run that records a contribution while the oracle fails: the page shows
\* the error and the success message, and the snapshot in use is the
\* fallback.
C17_Witness ==
    /\ outcome = {"price_error", "added"}
    /\ prices = FALLBACK_PRICES
    /\ TotalPool(contributions) > 0

\* C18: the snapshot returned after a failed oracle call can be told from
\* every snapshot a successful call returns.
C18_FallbackDistinguishable ==
    "price_error" \in outcome =>
        \A response \in OracleResponses :
            ~OracleFailed(response) => get_crypto_prices(response).prices # prices

(***************************************************************************)
(* The data directory: documents that are missing or damaged, and a run of *)
(* main() taken one access to the directory at a time.                     *)
(***************************************************************************)
\* The data directory as one value.  The content of a document that is
\* missing or damaged is kept as <<>>.
DataDir == [files |-> files, contributions |-> contributions,
            transactions |-> transactions, portfolio |-> portfolio]

\* The Python type json.load returns for a document the program wrote.
StoredType(document) == IF document = "transactions" THEN "list" ELSE "dict"

\* A faulty variant: every document is written with its initial value,
\* whether it exists or not.
init_data_files_rewriting(dir) ==
    [files |-> [document \in Documents |-> "ok"],
     contributions |-> InitialDocument("contributions"),
     transactions |-> InitialDocument("transactions"),
     portfolio |-> InitialDocument("portfolio")]

\* init_data_files(): every missing document is written with its initial
\* value; a document that exists is left as it is, damaged or not.
init_data_files(dir) ==
    LET written(document) ==
            IF dir.files[document] = "missing"
              THEN InitialDocument(document) ELSE dir[document]
    IN  [files |-> [document \in Documents |->
                      IF dir.files[document] = "missing"
                        THEN "ok" ELSE dir.files[document]],
         contributions |-> written("contributions"),
         transactions |-> written("transactions"),
         portfolio |-> written("portfolio")]

\* How a document is damaged: deleted ("missing"); text that is not JSON,
\* such as the empty file ("corrupt"); bytes that are not UTF-8
\* ("not_utf8"); the JSON null ("null"); or the empty JSON value of the
\* other shape, [] in place of a dict and {} in place of the list
\* ("other_shape").
Damages == {"missing", "corrupt", "not_utf8", "null", "other_shape"}

\* load_json(file_path): the parsed document, whatever its shape, or {}
\* after FileNotFoundError or JSONDecodeError.  The except clause catches
\* nothing else: the UnicodeDecodeError of a file that is not UTF-8 text
\* leaves the function.
load_json(dir, document) ==
    LET state == dir.files[document]
    IN  CASE state = "ok" ->
                [raises |-> "", type |-> StoredType(document), value |-> dir[document]]
          [] state \in {"missing", "corrupt"} ->
                [raises |-> "", type |-> "dict", value |-> <<>>]
          [] state = "not_utf8" ->
                [raises |-> "UnicodeDecodeError", type |-> "", value |-> <<>>]
          [] state = "null" ->
                [raises |-> "", type |-> "NoneType", value |-> <<>>]
          [] state = "other_shape" ->
                [raises |-> "",
                 type |-> IF document = "transactions" THEN "dict" ELSE "list",
                 value |-> <<>>]

\* No run is between two accesses to the directory: none was started, or
\* the process that made one is gone.  The next run of main() is a new
\* process.
AtRest == pending.step \in {"idle", "crashed"}

\* A run of main() in progress: where it is, the page and what was entered,
\* the function that is saving, and the documents before and after its
\* saves.
Run(step, page, call, before, after) ==
    [step |-> step, page |-> page, call |-> call, before |-> before, after |-> after]

\* A document is deleted or damaged outside the program, one at a time:
\* between two runs, while a run waits for the price oracle, or between the
\* validation of a purchase and its recording.
document_damaged(document, damage) ==
    /\ pending.step \in {"idle", "fetching", "recording"}
    /\ \A other \in Documents : files[other] = "ok"
    /\ files' = [files EXCEPT ![document] = damage]
    /\ file_size' = [file_size EXCEPT ![document] =
                        CASE damage \in {"missing", "corrupt"} -> 0
                          [] damage = "not_utf8" -> 1
                          [] damage = "null" -> 4
                          [] damage = "other_shape" -> 2]
    /\ contributions' = IF document = "contributions" THEN <<>> ELSE contributions
    /\ transactions' = IF document = "transactions" THEN <<>> ELSE transactions
    /\ portfolio' = IF document = "portfolio" THEN <<>> ELSE portfolio
    /\ outcome' = {"damaged"}
    /\ UNCHANGED <<now, clock, prices, pending, sessions, report>>

\* The start of a run of main(): init_data_files(), then the wait for the
\* price oracle (requests.get with timeout=10).
main_init_data_files(page) ==
    /\ AtRest
    /\ files' = init_data_files(DataDir).files
    /\ file_size' = [document \in Documents |->
                        IF files[document] = "missing"
                          THEN json_dump_length(document, InitialDocument(document),
                                                IsoLength(clock))
                          ELSE file_size[document]]
    /\ contributions' = init_data_files(DataDir).contributions
    /\ transactions' = init_data_files(DataDir).transactions
    /\ portfolio' = init_data_files(DataDir).portfolio
    /\ outcome' = {"fetching"}
    /\ pending' = Run("fetching", page, "", <<>>, <<>>)
    /\ UNCHANGED <<now, clock, prices, sessions, report>>

\* The three load_json calls of main() after the fetch: the exception that
\* leaves main(), or "".
main_loads ==
    IF \E document \in Documents : load_json(DataDir, document).raises # ""
      THEN "UnicodeDecodeError" ELSE ""

\* The rest of a run of main() on "Transaction History": the loads of
\* main(), then a page that writes nothing.
main_show_transaction_history ==
    /\ pending.step = "fetching"
    /\ pending.page.name = "Transaction History"
    /\ outcome' = IF main_loads # "" THEN {main_loads} ELSE {"shown"}
    /\ pending' = Idle
    /\ UNCHANGED <<contributions, transactions, portfolio, now, clock, files, file_size, prices,
                   sessions, report>>

\* What add_contribution raises on the contributions it loaded: the
\* membership test on None, or the assignment of a key to a list.
add_contribution_raises(loaded) ==
    IF loaded.type \in {"NoneType", "list"} THEN "TypeError" ELSE ""

\* The rest of a run of main() on "Add Contributions" with "Add
\* Contribution" pressed: the loads of main(), then add_contribution up to
\* its save_json, on the document its own load_json gives.
main_add_contribution ==
    LET page == pending.page
        loaded == load_json(DataDir, "contributions")
        raised == IF main_loads # "" THEN main_loads
                  ELSE add_contribution_raises(loaded)
    IN  /\ pending.step = "fetching"
        /\ pending.page.name = "Add Contributions"
        /\ ContributionFormAccepts(page.member, page.amount)
        /\ IF raised # ""
             THEN outcome' = {raised} /\ pending' = Idle
           ELSE /\ RecordCount(loaded.value) < MaxStorageContribs
                /\ outcome' = {"saving"}
                /\ pending' = Run("open_contributions", page, "add_contribution",
                                  [contributions |-> contributions],
                                  [contributions |->
                                      add_contribution(loaded.value, page.member,
                                                       page.amount, IsoDate(page.date))])
        /\ UNCHANGED <<contributions, transactions, portfolio, now, clock, files, file_size, prices,
                       sessions, report>>

\* What show_buy_crypto_page answers to one filling of the form on the
\* balance it computed: the tags of a refusal, or {} when the button records.
buy_crypto_refusal(entry, balance) ==
    LET crypto_to_buy == CryptoSymbol(entry.selected, entry.custom)
        total_cost == TotalCost(entry.amount, entry.price, entry.fee)
        errors == validation_errors(crypto_to_buy, entry.amount, entry.price,
                                    total_cost, balance)
    IN  IF balance <= 0 THEN {"no_balance"}
        ELSE IF errors # {} THEN errors \cup {"disabled"}
        ELSE {}

\* What the balance of show_buy_crypto_page raises on the documents it
\* loaded: .get on None or on a list, or the iteration over None.
available_balance_raises(loaded_contributions, loaded_transactions) ==
    IF loaded_contributions.type \in {"NoneType", "list"} THEN "AttributeError"
    ELSE IF loaded_transactions.type = "NoneType" THEN "TypeError"
    ELSE ""

\* The rest of a run of main() on "Buy Crypto" with "Record Transaction"
\* pressed, up to the call of add_transaction_with_date: the loads of main(),
\* then the balance and the validation of the page on the documents the
\* page loads.
main_buy_crypto ==
    LET entry == pending.page.entry
        loaded_contributions == load_json(DataDir, "contributions")
        loaded_transactions == load_json(DataDir, "transactions")
        raised == IF main_loads # "" THEN main_loads
                  ELSE available_balance_raises(loaded_contributions,
                                                loaded_transactions)
        balance == available_balance(loaded_contributions.value,
                                     loaded_transactions.value)
        refusal == buy_crypto_refusal(entry, balance)
    IN  /\ pending.step = "fetching"
        /\ pending.page.name = "Buy Crypto"
        /\ IF raised # ""
             THEN outcome' = {raised} /\ pending' = Idle
           ELSE IF refusal # {}
             THEN outcome' = refusal /\ pending' = Idle
           ELSE /\ outcome' = {"validated"}
                /\ pending' = [pending EXCEPT !.step = "recording"]
        /\ UNCHANGED <<contributions, transactions, portfolio, now, clock, files, file_size, prices,
                       sessions, report>>

\* What add_transaction_with_date raises on the documents it loaded, before
\* it saves anything: the load of a file that is not UTF-8, the append to a
\* dict or to None, the membership test on None or the assignment of a key
\* to a list.
add_transaction_with_date_raises(loaded_transactions, loaded_portfolio) ==
    IF loaded_transactions.raises # "" THEN loaded_transactions.raises
    ELSE IF loaded_portfolio.raises # "" THEN loaded_portfolio.raises
    ELSE IF loaded_transactions.type # "list" THEN "AttributeError"
    ELSE IF loaded_portfolio.type \in {"NoneType", "list"} THEN "TypeError"
    ELSE ""

\* The file operations of the two save_json calls, in order.
SaveSteps == <<"open_transactions", "dump_transactions", "open_portfolio", "dump_portfolio">>

\* add_transaction_with_date up to its first save_json: the two loads, the
\* append and the update of the holdings, all in memory.  MaxTx bounds the
\* purchases on record in either document.
main_add_transaction_with_date ==
    LET entry == pending.page.entry
        loaded_transactions == load_json(DataDir, "transactions")
        loaded_portfolio == load_json(DataDir, "portfolio")
        raised == add_transaction_with_date_raises(loaded_transactions,
                                                   loaded_portfolio)
        saved == add_transaction_with_date(loaded_transactions.value,
                                           loaded_portfolio.value,
                                           CryptoSymbol(entry.selected, entry.custom),
                                           entry.amount, entry.price, entry.fee,
                                           entry.date)
    IN  /\ pending.step = "recording"
        /\ IF raised # ""
             THEN outcome' = {raised} /\ pending' = Idle
             ELSE /\ Len(loaded_transactions.value) < MaxTx
                  /\ SumValues(loaded_portfolio.value) < MaxTx
                  /\ outcome' = {"saving"}
                  /\ pending' = Run(SaveSteps[1], pending.page,
                                    "add_transaction_with_date",
                                    [files |-> files,
                                     transactions |-> transactions,
                                     portfolio |-> portfolio],
                                    [files |-> [files EXCEPT
                                                  !["transactions"] = "ok",
                                                  !["portfolio"] = "ok"],
                                     transactions |-> saved.transactions,
                                     portfolio |-> saved.portfolio])
        /\ UNCHANGED <<contributions, transactions, portfolio, now, clock, files, file_size, prices,
                       sessions, report>>

\* open(file_path, 'w') of save_json: the file exists and is empty, which
\* json.load does not parse.
save_json_open ==
    /\ pending.step \in {"open_contributions", "open_transactions", "open_portfolio"}
    /\ CASE pending.step = "open_contributions" ->
              /\ files' = [files EXCEPT !["contributions"] = "corrupt"]
              /\ file_size' = [file_size EXCEPT !["contributions"] = 0]
              /\ contributions' = <<>>
              /\ pending' = [pending EXCEPT !.step = "dump_contributions"]
              /\ UNCHANGED <<transactions, portfolio>>
         [] pending.step = "open_transactions" ->
              /\ files' = [files EXCEPT !["transactions"] = "corrupt"]
              /\ file_size' = [file_size EXCEPT !["transactions"] = 0]
              /\ transactions' = <<>>
              /\ pending' = [pending EXCEPT !.step = "dump_transactions"]
              /\ UNCHANGED <<contributions, portfolio>>
         [] pending.step = "open_portfolio" ->
              /\ files' = [files EXCEPT !["portfolio"] = "corrupt"]
              /\ file_size' = [file_size EXCEPT !["portfolio"] = 0]
              /\ portfolio' = <<>>
              /\ pending' = [pending EXCEPT !.step = "dump_portfolio"]
              /\ UNCHANGED <<contributions, transactions>>
    /\ UNCHANGED <<now, clock, outcome, prices, sessions, report>>

\* json.dump(data, f) and the close of save_json: the file holds the
\* document.  After its last save the function returns.
save_json_dump ==
    /\ pending.step \in {"dump_contributions", "dump_transactions", "dump_portfolio"}
    /\ CASE pending.step = "dump_contributions" ->
              /\ files' = [files EXCEPT !["contributions"] = "ok"]
              /\ file_size' = [file_size EXCEPT !["contributions"] =
                    json_dump_length("contributions", pending.after.contributions, IsoLength(clock))]
              /\ contributions' = pending.after.contributions
              /\ pending' = Idle
              /\ outcome' = {"added"}
              /\ UNCHANGED <<transactions, portfolio>>
         [] pending.step = "dump_transactions" ->
              /\ files' = [files EXCEPT !["transactions"] = "ok"]
              /\ file_size' = [file_size EXCEPT !["transactions"] =
                    json_dump_length("transactions", pending.after.transactions, IsoLength(clock))]
              /\ transactions' = pending.after.transactions
              /\ pending' = [pending EXCEPT !.step = "open_portfolio"]
              /\ UNCHANGED <<contributions, portfolio, outcome>>
         [] pending.step = "dump_portfolio" ->
              /\ files' = [files EXCEPT !["portfolio"] = "ok"]
              /\ file_size' = [file_size EXCEPT !["portfolio"] =
                    json_dump_length("portfolio", pending.after.portfolio, IsoLength(clock))]
              /\ portfolio' = pending.after.portfolio
              /\ pending' = Idle
              /\ outcome' = {"recorded"}
              /\ UNCHANGED <<contributions, transactions>>
    /\ UNCHANGED <<now, clock, prices, sessions, report>>

\* The process dies between two accesses of the run to the directory.
crash ==
    /\ ~AtRest
    /\ pending' = [pending EXCEPT !.step = "crashed"]
    /\ outcome' = {"crashed"}
    /\ UNCHANGED <<contributions, transactions, portfolio, now, clock, files, file_size, prices,
                   sessions, report>>

\* Fillings of the purchase form that pass its validation, given the balance.
StoragePurchaseEntries == {Entry("BTC", "", 1, 40, 0), Entry("Other", "ada", 1, 40, 10)}

\* The runs of main() that are made: the page, with what is entered and
\* pressed on it.
StoragePages ==
    { [name |-> "Transaction History"],
      [name |-> "Add Contributions", member |-> MEMBERS[1],
       amount |-> QuickAddAmount, date |-> Today] }
        \cup {[name |-> "Buy Crypto", entry |-> entry] : entry \in StoragePurchaseEntries}

NextStorage ==
    \/ \E document \in Documents, damage \in Damages : document_damaged(document, damage)
    \/ \E page \in StoragePages : main_init_data_files(page)
    \/ main_show_transaction_history
    \/ main_add_contribution
    \/ main_buy_crypto
    \/ main_add_transaction_with_date
    \/ save_json_open
    \/ save_json_dump
    \/ crash

SpecStorage == Init /\ [][NextStorage]_vars

\* The empty value of the shape of a document's collection, as a Python type.
ShapeOf(document) == IF document = "transactions" THEN "list" ELSE "dict"

\* The exceptions a run of main() ended with.
RunErrors == {"AttributeError", "TypeError", "UnicodeDecodeError"}

\* C19: a document that is missing or corrupt loads, without an exception,
\* as the empty default of the shape of its collection, and no recording on
\* the loaded documents fails.
C19_LoadYieldsDefaultOfShape ==
    /\ \A document \in Documents :
          files[document] # "ok" =>
              /\ load_json(DataDir, document).raises = ""
              /\ load_json(DataDir, document).value = <<>>
              /\ load_json(DataDir, document).type = ShapeOf(document)
    /\ outcome \cap RunErrors = {}

\* The transactions and holdings documents as they are on disk.
Persisted == [files |-> [files EXCEPT !["contributions"] = "ok"],
              transactions |-> transactions, portfolio |-> portfolio]

\* C20: after a crash inside the recording of a purchase the persisted
\* transactions and holdings are entirely as before the call or entirely as
\* after it.
C20_CrashLeavesBeforeOrAfter ==
    ( /\ pending.step = "crashed"
      /\ pending.call = "add_transaction_with_date" ) =>
        \/ Persisted = [pending.before EXCEPT !.files["contributions"] = "ok"]
        \/ Persisted = [pending.after EXCEPT !.files["contributions"] = "ok"]

(***************************************************************************)
(* Two browser sessions.  Streamlit runs the script of each session in a   *)
(* thread of its own, so the runs of two sessions interleave between file  *)
(* operations.  Every load_json is a step, and so are the open and the     *)
(* dump of every save_json.                                                *)
(***************************************************************************)
\* Contribution records in the document a session loads to append to.
MaxWriterContribs == 1
\* Transaction records in the document a session loads to append to.
MaxWriterTx == 2
\* Contribution records in the document when a quick add begins (SpecQuickAdd).
MaxWriterQuickAdds == 1

\* open(file_path, 'w') in save_json by a session: the file is emptied,
\* while any other session that has it open keeps its position at the start.
save_json_truncates(document) ==
    /\ files' = [files EXCEPT ![document] = "corrupt"]
    /\ file_size' = [file_size EXCEPT ![document] = 0]
    /\ contributions' = IF document = "contributions" THEN <<>> ELSE contributions
    /\ transactions' = IF document = "transactions" THEN <<>> ELSE transactions
    /\ portfolio' = IF document = "portfolio" THEN <<>> ELSE portfolio

\* json.dump(data, f) and the close in save_json by a session: the text is
\* written from the start of the file.  It replaces what the file holds when
\* it is at least as long; written over a longer text, which a session that
\* opened the file later has put there, it leaves the end of that text
\* behind it, and the file does not parse.
save_json_writes(document, data) ==
    LET length == json_dump_length(document, data, IsoLength(clock))
        whole == length >= file_size[document]
        written == IF whole THEN data ELSE <<>>
    IN  /\ files' = [files EXCEPT ![document] = IF whole THEN "ok" ELSE "corrupt"]
        /\ file_size' = [file_size EXCEPT ![document] = IF whole THEN length ELSE @]
        /\ contributions' = IF document = "contributions" THEN written ELSE contributions
        /\ transactions' = IF document = "transactions" THEN written ELSE transactions
        /\ portfolio' = IF document = "portfolio" THEN written ELSE portfolio

\* The locals of a session inside add_contribution, after its load_json and
\* append: the document with the new record, and the index in MEMBERS of
\* the member the loop of the quick add calls add_contribution for next
\* (beyond MEMBERS when the loop is over, or when the call is the one of
\* the individual form).
ContributionLoaded(member, contribs, next) ==
    [step |-> "contribution_loaded", member |-> member, contributions |-> contribs,
     next |-> next]

\* add_contribution of session w for the individual form, up to its
\* load_json and append.  A file another session has emptied loads as {}.
session_add_contribution_load(w, member, amount) ==
    LET loaded == load_json(DataDir, "contributions").value
    IN  /\ sessions[w] = Idle
        /\ ContributionFormAccepts(member, amount)
        /\ RecordCount(loaded) < MaxWriterContribs
        /\ sessions' = [sessions EXCEPT ![w] =
              ContributionLoaded(member,
                                 add_contribution(loaded, member, amount,
                                                  IsoDate(now)),
                                 Len(MEMBERS) + 1)]
        /\ UNCHANGED outcome
        /\ UNCHANGED <<contributions, transactions, portfolio, now, clock, files,
                       file_size, prices, pending, report>>

\* add_contribution(member, 50.0) of the quick add of session w, up to its
\* load_json and append: the first call of the loop over MEMBERS, or the
\* call after one that has saved.  MaxWriterQuickAdds bounds the records on
\* disk when the button is pressed.
session_quick_add_load(w) ==
    LET i == IF sessions[w] = Idle THEN 1 ELSE sessions[w].next
        loaded == load_json(DataDir, "contributions").value
    IN  /\ \/ sessions[w] = Idle /\ RecordCount(contributions) < MaxWriterQuickAdds
           \/ sessions[w].step = "quick_add"
        /\ sessions' = [sessions EXCEPT ![w] =
              ContributionLoaded(MEMBERS[i],
                                 add_contribution(loaded, MEMBERS[i], QuickAddAmount,
                                                  IsoDateTime(now, clock)),
                                 i + 1)]
        /\ UNCHANGED <<contributions, transactions, portfolio, now, clock, outcome,
                       files, file_size, prices, pending, report>>

\* The document the save_json of session w is about to open, or "" when the
\* session is not at a save_json.
Saving(w) ==
    CASE sessions[w].step = "contribution_loaded" -> "contributions"
      [] sessions[w].step = "loaded" -> "transactions"
      [] sessions[w].step = "transactions_saved" -> "portfolio"
      [] OTHER -> ""

\* open(file_path, 'w') of a save_json of session w.
session_save_json_open(w) ==
    /\ Saving(w) # ""
    /\ save_json_truncates(Saving(w))
    /\ sessions' = [sessions EXCEPT ![w].step =
          CASE Saving(w) = "contributions" -> "contribution_opened"
            [] Saving(w) = "transactions" -> "transactions_opened"
            [] Saving(w) = "portfolio" -> "portfolio_opened"]
    /\ UNCHANGED <<now, clock, outcome, prices, pending, report>>

\* json.dump of save_json(CONTRIBUTIONS_FILE, contributions) of session w.
\* add_contribution returns; the loop of the quick add goes on to the next
\* member.
session_add_contribution_save(w) ==
    /\ sessions[w].step = "contribution_opened"
    /\ save_json_writes("contributions", sessions[w].contributions)
    /\ IF sessions[w].next <= Len(MEMBERS)
         THEN /\ sessions' = [sessions EXCEPT ![w] =
                    [step |-> "quick_add", next |-> sessions[w].next]]
              /\ UNCHANGED outcome
         ELSE /\ sessions' = [sessions EXCEPT ![w] = Idle]
              /\ outcome' = {"added"}
    /\ UNCHANGED <<now, clock, prices, pending, report>>

\* The script run of session w ends between two file operations: the
\* process dies, or Streamlit stops the run for a rerun.
session_stopped(w) ==
    /\ sessions[w] # Idle
    /\ sessions' = [sessions EXCEPT ![w] = Idle]
    /\ outcome' = {"stopped"}
    /\ UNCHANGED <<contributions, transactions, portfolio, now, clock, files,
                   file_size, prices, pending, report>>

\* show_buy_crypto_page of session w as far as total_contributions: the
\* load_json of calculate_total_contributions and the sum of its totals.
\* MaxWriterTx bounds the purchases on record when the page is opened.
session_calculate_total_contributions(w, entry) ==
    LET loaded == load_json(DataDir, "contributions").value
    IN  /\ sessions[w] = Idle
        /\ Len(transactions) < MaxWriterTx
        /\ sessions' = [sessions EXCEPT ![w] =
              [step |-> "pool_loaded", entry |-> entry,
               total_contributions |-> TotalPool(loaded)]]
        /\ UNCHANGED <<contributions, transactions, portfolio, now, clock, outcome,
                       files, file_size, prices, pending, report>>

\* show_buy_crypto_page of session w with "Record Transaction" pressed, from
\* its load_json of the transactions up to the call of
\* add_transaction_with_date: the transactions and the balance are locals
\* of the page.
session_buy_crypto_check(w) ==
    LET page_transactions == load_json(DataDir, "transactions").value
        balance == sessions[w].total_contributions - TotalSpentBuy(page_transactions)
        refusal == buy_crypto_refusal(sessions[w].entry, balance)
    IN  /\ sessions[w].step = "pool_loaded"
        /\ IF refusal # {}
             THEN /\ outcome' = refusal
                  /\ sessions' = [sessions EXCEPT ![w] = Idle]
             ELSE /\ sessions' = [sessions EXCEPT ![w] =
                        [step |-> "checked",
                         entry |-> sessions[w].entry,
                         total_contributions |-> sessions[w].total_contributions,
                         page_transactions |-> page_transactions]]
                  /\ UNCHANGED outcome
        /\ UNCHANGED <<contributions, transactions, portfolio, now, clock, files,
                       file_size, prices, pending, report>>

\* transactions = load_json(TRANSACTIONS_FILE) of add_transaction_with_date
\* of session w.
session_add_transaction_load(w) ==
    /\ sessions[w].step = "checked"
    /\ Len(load_json(DataDir, "transactions").value) < MaxWriterTx
    /\ sessions' = [sessions EXCEPT ![w] =
          [step |-> "transactions_loaded",
           entry |-> sessions[w].entry,
           total_contributions |-> sessions[w].total_contributions,
           page_transactions |-> sessions[w].page_transactions,
           loaded_transactions |-> load_json(DataDir, "transactions")]]
    /\ UNCHANGED <<contributions, transactions, portfolio, now, clock, outcome,
                   files, file_size, prices, pending, report>>

\* portfolio = load_json(PORTFOLIO_FILE) of add_transaction_with_date of
\* session w, then the append and the update of the holdings, on locals,
\* as far as the first save_json.  The append to transactions that loaded as
\* {} raises.
session_add_transaction_append(w) ==
    LET entry == sessions[w].entry
        loaded_transactions == sessions[w].loaded_transactions
        loaded_portfolio == load_json(DataDir, "portfolio")
        raised == add_transaction_with_date_raises(loaded_transactions,
                                                   loaded_portfolio)
        saved == add_transaction_with_date(loaded_transactions.value,
                     loaded_portfolio.value,
                     CryptoSymbol(entry.selected, entry.custom),
                     entry.amount, entry.price, entry.fee, entry.date)
    IN  /\ sessions[w].step = "transactions_loaded"
        /\ IF raised # ""
             THEN /\ outcome' = {raised}
                  /\ sessions' = [sessions EXCEPT ![w] = Idle]
             ELSE /\ sessions' = [sessions EXCEPT ![w] =
                        [step |-> "loaded",
                         total_contributions |-> sessions[w].total_contributions,
                         page_transactions |-> sessions[w].page_transactions,
                         transactions |-> saved.transactions,
                         portfolio |-> saved.portfolio]]
                  /\ UNCHANGED outcome
        /\ UNCHANGED <<contributions, transactions, portfolio, now, clock, files,
                       file_size, prices, pending, report>>

\* json.dump of save_json(TRANSACTIONS_FILE, transactions) of session w.
session_save_transactions(w) ==
    /\ sessions[w].step = "transactions_opened"
    /\ save_json_writes("transactions", sessions[w].transactions)
    /\ sessions' = [sessions EXCEPT ![w] =
          [step |-> "transactions_saved", portfolio |-> sessions[w].portfolio]]
    /\ UNCHANGED <<now, clock, outcome, prices, pending, report>>

\* json.dump of save_json(PORTFOLIO_FILE, portfolio) of session w, and the
\* return.
session_save_portfolio(w) ==
    /\ sessions[w].step = "portfolio_opened"
    /\ save_json_writes("portfolio", sessions[w].portfolio)
    /\ sessions' = [sessions EXCEPT ![w] = Idle]
    /\ outcome' = {"recorded"}
    /\ UNCHANGED <<now, clock, prices, pending, report>>

\* Fillings of the purchase form, one per session: costs of 40 and of 50,
\* fee included.  The record of the second is a character longer in the
\* file than that of the first.
WriterPurchaseEntries == <<Entry("BTC", "", 1, 40, 0), Entry("ETH", "", 1, 40, 10)>>

NextWriters ==
    \E w \in Writers :
        \/ session_add_contribution_load(w, MEMBERS[w], QuickAddAmount)
        \/ session_save_json_open(w)
        \/ session_add_contribution_save(w)
        \/ session_calculate_total_contributions(w, WriterPurchaseEntries[w])
        \/ session_buy_crypto_check(w)
        \/ session_add_transaction_load(w)
        \/ session_add_transaction_append(w)
        \/ session_save_transactions(w)
        \/ session_save_portfolio(w)

SpecWriters == Init /\ [][NextWriters]_vars

\* The two sessions on the contributions page alone: the quick add is
\* pressed in the first session, its four calls of add_contribution
\* interleave with the individual contributions of either session, and a
\* script run may end between two file operations.
NextQuickAdd ==
    \E w \in Writers :
        \/ w = 1 /\ session_quick_add_load(w)
        \/ \E member \in {MEMBERS[1], MEMBERS[2]} :
              session_add_contribution_load(w, member, QuickAddAmount)
        \/ session_save_json_open(w)
        \/ session_add_contribution_save(w)
        \/ session_stopped(w)

SpecQuickAdd == Init /\ [][NextQuickAdd]_vars

\* The documents session w computed on are not the ones on disk as it saves
\* its purchase: the pool or the transactions differ from those the page
\* took the balance from.
Stale(w) ==
    \/ TotalPool(contributions) # sessions[w].total_contributions
    \/ SubSeq(sessions[w].transactions, 1, Len(sessions[w].transactions) - 1)
          # sessions[w].page_transactions

\* C21: the save of a purchase leaves the available balance negative only
\* when another session has replaced the pool or the transactions since the
\* saving session read them (each purchase having passed the balance check
\* on its own snapshot); a session whose snapshot is current, as every one
\* of a single writer is, never overspends the pool.
C21_OverspendOnlyByInterleaving ==
    [][\A w \in Writers :
          ( /\ session_save_transactions(w)
            /\ Balance(contributions', transactions') < 0 ) => Stale(w)]_vars

\* The pool is overspent after two purchases were recorded, each within the
\* balance its page computed, and every document is readable.
C21_Witness ==
    /\ AvailableBalance < 0
    /\ available_balance(contributions, transactions) < 0
    /\ outcome = {"recorded"}
    /\ Len(transactions) = 2
    /\ \A i \in 1..Len(transactions) :
          transactions[i].total_cost <= TotalPool(contributions)
    /\ \A w \in Writers : sessions[w] = Idle
    /\ \A document \in Documents : files[document] = "ok"

\* C30: when a session begins to save its contribution, the document it
\* appended to is the one on disk, so that the save keeps every record
\* saved before it and, once two interleaved sessions have both saved, both
\* records are on disk.
C30_NoContributionLost ==
    [][\A w \in Writers :
          ( /\ session_save_json_open(w)
            /\ Saving(w) = "contributions" ) =>
              /\ files["contributions"] = "ok"
              /\ \A member \in DOMAIN contributions :
                    /\ member \in DOMAIN sessions[w].contributions
                    /\ SubSeq(sessions[w].contributions[member], 1,
                              Len(contributions[member]))
                          = contributions[member]]_vars

(***************************************************************************)
(* Frame and shape of the ledgers under the single writer.                 *)
(***************************************************************************)
\* earlier is a prefix of later.
IsPrefix(earlier, later) ==
    /\ Len(earlier) <= Len(later)
    /\ SubSeq(later, 1, Len(earlier)) = earlier

\* C22: under the single writer both ledgers are append-only: after any
\* step each member's earlier contribution list and the earlier transaction
\* list are prefixes of the new lists, so no record is modified, reordered
\* or removed.
C22_LedgersAppendOnly ==
    [][/\ DOMAIN contributions \subseteq DOMAIN contributions'
       /\ \A member \in DOMAIN contributions :
             IsPrefix(contributions[member], contributions'[member])
       /\ IsPrefix(transactions, transactions')]_vars

\* A member has two contributions of different amounts, the later one
\* behind the earlier, and two different purchases are on record.
C22_Witness ==
    /\ Len(contributions[MEMBERS[1]]) >= 2
    /\ contributions[MEMBERS[1]][1].amount = 25
    /\ contributions[MEMBERS[1]][2].amount = 50
    /\ Len(transactions) = 2
    /\ transactions[1] # transactions[2]

(***************************************************************************)
(* The read and report operations, run on the ledger between the writes.   *)
(***************************************************************************)
\* Contribution records in the ledger (SpecReports).
MaxReportContribs == 2
\* Transaction records in the ledger (SpecReports).
MaxReportTx == 2

\* df.sort_values('timestamp', ascending=False) of show_transaction_history.
\* The timestamp of a record is the time it was appended at, so the latest
\* timestamp is the last record of the list.
show_transaction_history(txs) == [i \in 1..Len(txs) |-> txs[Len(txs) + 1 - i]]

\* contributions and any(contributions.values()): the document has a
\* member with a record.
HasContributions(contribs) == \E k \in DOMAIN contribs : contribs[k] # <<>>

\* cumulative_btc / cumulative_eth of create_portfolio_trend_chart after the
\* first n records: the amounts of the records of one symbol, whatever
\* their type.
CumulativeAmount(txs, n, crypto) ==
    SumSeq(Amounts(SelectSeq(SubSeq(txs, 1, n), LAMBDA t : t.crypto = crypto)))

\* create_portfolio_trend_chart(transactions, prices): portfolio_values, one
\* value per record in the order of the timestamps, which is the order of
\* the list.
create_portfolio_trend_chart(txs, snapshot) ==
    [n \in 1..Len(txs) |->
        (CumulativeAmount(txs, n, "BTC") * snapshot["BTC"])
            + (CumulativeAmount(txs, n, "ETH") * snapshot["ETH"])]

\* streak_data of show_analytics_page: get_contribution_streak for every
\* member of MEMBERS.
streak_data(contribs, today) ==
    [member \in MemberSet |-> get_contribution_streak(member, contribs, today.day)]

\* generate_weekly_summary_report(contributions, transactions, portfolio,
\* prices): the numbers the text is formatted from, and the moment it is
\* generated at, to the second.
generate_weekly_summary_report(contribs, txs, pf, snapshot, today) ==
    LET performance == calculate_weekly_performance(contribs, today)
        total_contributions == total_contrib_this_week(contribs)
        portfolio_value == (Get(pf, "BTC", 0) * snapshot["BTC"])
                              + (Get(pf, "ETH", 0) * snapshot["ETH"])
    IN  [generated |-> [day |-> today.day, time |-> SubSeq(today.time, 1, 3)],
         total_contributions |-> total_contributions,
         portfolio_value |-> portfolio_value,
         gain_loss |-> portfolio_value - total_contributions,
         members |-> [member \in DOMAIN performance |->
                         [performance |-> performance[member],
                          streak |-> get_contribution_streak(member, contribs,
                                                             today.day)]]]

\* show_dashboard(prices, portfolio, contributions, transactions): the
\* metrics, the holdings and the member rows.  The totals and the
\* percentages are computed on the contributions the page loads again
\* (reloaded), the rest on the documents main() loaded.
show_dashboard(snapshot, pf, reloaded) ==
    [returned |-> "",
     portfolio_value |-> calculate_portfolio_value(pf, snapshot),
     total_invested |-> SumValues(calculate_total_contributions(reloaded)),
     gain_loss |-> calculate_portfolio_value(pf, snapshot)
                      - SumValues(calculate_total_contributions(reloaded)),
     ownership_percentages |-> calculate_ownership_percentages(reloaded),
     holdings_data |-> holdings_data(pf, snapshot),
     member_data |-> member_data(reloaded, pf, snapshot)]

\* show_transaction_history(transactions): the early return on an empty
\* list, or the table, latest first.
show_transaction_history_page(txs) ==
    IF txs = <<>> THEN [returned |-> "No transactions yet."]
    ELSE [returned |-> "", history |-> show_transaction_history(txs)]

\* show_analytics_page(prices, portfolio, contributions, transactions): the
\* early return on an empty list; the trend chart; the ROI, whose KeyError
\* ends the run before the heat map and the streaks; the heat map when there
\* are contributions; the streaks.  "Export All Data to CSV" is not pressed.
show_analytics_page(snapshot, contribs, txs, today) ==
    LET roi_data == calculate_roi_by_crypto(txs, snapshot)
    IN  IF txs = <<>> THEN [returned |-> "No transaction data available"]
        ELSE IF roi_data.error # ""
          THEN [returned |-> roi_data.error,
                trend_chart |-> create_portfolio_trend_chart(txs, snapshot)]
        ELSE [returned |-> "",
              trend_chart |-> create_portfolio_trend_chart(txs, snapshot),
              roi_data |-> roi_data.roi_data,
              heatmap |-> IF HasContributions(contribs)
                            THEN <<create_contribution_heatmap(contribs)>>
                            ELSE <<>>,
              streak_data |-> streak_data(contribs, today)]

\* show_weekly_summary_page(prices, portfolio, contributions, transactions):
\* the report and the performance table when there are contributions, the
\* "No data" message otherwise.
show_weekly_summary_page(snapshot, pf, contribs, txs, today) ==
    IF HasContributions(contribs)
      THEN [returned |-> "",
            report |-> generate_weekly_summary_report(contribs, txs, pf, snapshot,
                                                      today),
            performance |-> calculate_weekly_performance(contribs, today)]
      ELSE [returned |-> "No data available for weekly summary"]

\* The pages of app.py that show reports and have no button that writes.
ReportPages == {"Dashboard", "Transaction History", "Analytics", "Weekly Summary"}

\* What main() shows on one report page: the branch of its if / elif chain,
\* called with the prices fetched and the documents loaded from the
\* directory.
show_page(page, dir, snapshot, today) ==
    LET pf == load_json(dir, "portfolio").value
        contribs == load_json(dir, "contributions").value
        txs == load_json(dir, "transactions").value
    IN  CASE page = "Dashboard" -> show_dashboard(snapshot, pf, contribs)
          [] page = "Transaction History" -> show_transaction_history_page(txs)
          [] page = "Analytics" -> show_analytics_page(snapshot, contribs, txs, today)
          [] page = "Weekly Summary" ->
                show_weekly_summary_page(snapshot, pf, contribs, txs, today)

\* A run of main() on a report page: init_data_files(), the fetch of the
\* prices, the three loads and the page.  The documents the run leaves in
\* the directory are those init_data_files leaves: nothing on the page calls
\* save_json.
run_report(page, snapshot) ==
    LET dir == init_data_files(DataDir)
    IN  /\ files' = dir.files
        /\ contributions' = dir.contributions
        /\ transactions' = dir.transactions
        /\ portfolio' = dir.portfolio
        /\ prices' = snapshot
        /\ report' = [page |-> page,
                      result |-> show_page(page, dir, snapshot, datetime_now)]
        /\ outcome' = {"report"}
        /\ UNCHANGED <<now, clock, file_size, pending, sessions>>

\* Purchases of the ledger the reports are run on.  Its contributions are
\* of two members, the weekly amount, today or a week ago.
ReportPurchaseEntries == {Entry("BTC", "", 1, 40, 0), Entry("Other", "ada", 1, 20, 5)}

\* A run of main() on a page that writes: the prices are fetched before the
\* page, and the page is shown in place of the report shown before.
report_replaced ==
    /\ report' = NoReport
    /\ prices' \in LiveSnapshots
    /\ UNCHANGED <<files, file_size, pending, sessions>>

NextReports ==
    \/ \E member \in {MEMBERS[1], MEMBERS[2]}, amount \in {QuickAddAmount},
          offset \in {0, 0 - 7} :
          /\ show_contributions_page_add(member, amount, now + offset, MaxReportContribs)
          /\ report_replaced
    \/ \E entry \in ReportPurchaseEntries :
          /\ Len(transactions) < MaxReportTx
          /\ show_buy_crypto_page(entry)
          /\ report_replaced
    \/ \E page \in ReportPages, snapshot \in LiveSnapshots :
          run_report(page, snapshot)

SpecReports == Init /\ [][NextReports]_vars

MaxSampleContribs == 34
\* Transaction records in the ledger (SpecSample).
MaxSampleTx == 7

\* "amount": 75.0
SampleContributionAmount == 7500000

\* contributions[member].sort(key=lambda x: x["date"]): a stable sort,
\* earliest first.  The records of one member are a week apart, so the day
\* decides.
RECURSIVE SortedByDate(_)
SortedByDate(records) ==
    IF records = <<>> THEN <<>>
    ELSE LET sorted == SortedByDate(SubSeq(records, 1, Len(records) - 1))
             record == records[Len(records)]
         IN  SelectSeq(sorted, LAMBDA r : r.date <= record.date)
                \o <<record>>
                \o SelectSeq(sorted, LAMBDA r : r.date > record.date)

\* create_sample_contributions(), run at the moment today: the document it
\* writes to contributions.json.  missed holds the (member, week) pairs for
\* which random.random() > 0.1 was false.
create_sample_contributions(today, missed) ==
    [member \in MemberSet |->
        LET weeks == SelectSeq([i \in 1..8 |-> i - 1],
                               LAMBDA week : <<member, week>> \notin missed)
        IN  SortedByDate([i \in 1..Len(weeks) |->
                            [amount |-> SampleContributionAmount,
                             date |-> today.day - (7 * weeks[i]),
                             time |-> today.time]])]

\* btc_transactions + eth_transactions
all_sample_transactions ==
    << [crypto |-> "BTC", amount |-> 3456, price |-> 9525, date_offset |-> 6],
       [crypto |-> "BTC", amount |-> 2891, price |-> 9780, date_offset |-> 4],
       [crypto |-> "BTC", amount |-> 4123, price |-> 9420, date_offset |-> 2],
       [crypto |-> "ETH", amount |-> 142857, price |-> 525, date_offset |-> 5],
       [crypto |-> "ETH", amount |-> 117647, price |-> 510, date_offset |-> 3],
       [crypto |-> "ETH", amount |-> 156250, price |-> 480, date_offset |-> 1] >>

\* Insertion of one record into a list sorted by timestamp, earliest first,
\* behind the records of the same timestamp.
RECURSIVE InsertByTimestamp(_, _)
InsertByTimestamp(sorted, record) ==
    IF sorted = <<>> THEN <<record>>
    ELSE IF sorted[1].timestamp <= record.timestamp
           THEN <<sorted[1]>> \o InsertByTimestamp(Tail(sorted), record)
           ELSE <<record>> \o sorted

\* transactions.sort(key=lambda x: x["timestamp"])
RECURSIVE SortedByTimestamp(_)
SortedByTimestamp(records) ==
    IF records = <<>> THEN <<>>
    ELSE InsertByTimestamp(SortedByTimestamp(SubSeq(records, 1, Len(records) - 1)),
                           records[Len(records)])

\* create_sample_transactions(), run on the day today: the list it writes
\* to transactions.json.  Its records have no "transaction_fee" and no
\* "date" key.
create_sample_transactions(today) ==
    SortedByTimestamp(
        [i \in 1..Len(all_sample_transactions) |->
            LET tx == all_sample_transactions[i]
            IN  [crypto |-> tx.crypto,
                 amount |-> tx.amount,
                 price |-> tx.price,
                 total_cost |-> tx.amount * tx.price,
                 type |-> "buy",
                 timestamp |-> today - 7 * tx.date_offset]])

\* create_sample_portfolio(): the map it writes to portfolio.json,
\* btc_total = sum([0.003456, 0.002891, 0.004123]) and
\* eth_total = sum([0.142857, 0.117647, 0.156250]).
create_sample_portfolio ==
    [BTC |-> 3456 + 2891 + 4123, ETH |-> 142857 + 117647 + 156250]

\* main() of init_sample_data.py: the three documents are written anew,
\* whatever the directory held.
init_sample_data_main(missed) ==
    /\ contributions' = create_sample_contributions(datetime_now, missed)
    /\ transactions' = create_sample_transactions(now)
    /\ portfolio' = create_sample_portfolio
    /\ files' = [document \in Documents |-> "ok"]
    /\ outcome' = {"sample_data"}
    /\ UNCHANGED <<now, clock, file_size, prices, pending, sessions, report>>

\* Outcomes of the draws of random.random(): every member contributes every
\* week; one member misses the latest week; two members miss a week each.
SampleMisses ==
    { {}, {<<MEMBERS[1], 0>>}, {<<MEMBERS[2], 3>>, <<MEMBERS[4], 7>>} }

\* Fillings of the purchase form: 0.02 BTC at 90,000 AUD without a fee, and
\* 0.001 ETH at 5,000 AUD with a fee of 1 AUD.
SamplePurchaseEntries ==
    {Entry("BTC", "", 20000, 9000, 0), Entry("ETH", "", 1000, 500, 100000)}

\* show_buy_crypto_page(prices) with "Record Transaction" pressed, on a
\* ledger that may hold the sample records.
sample_show_buy_crypto_page(entry) ==
    LET balance == available_balance(contributions, transactions)
        refusal == buy_crypto_refusal(entry, balance)
        saved == add_transaction_with_date(transactions, portfolio,
                                           CryptoSymbol(entry.selected, entry.custom),
                                           entry.amount, entry.price, entry.fee,
                                           entry.date)
    IN  /\ PurchaseFormAccepts(entry.amount, entry.price, entry.fee)
        /\ IF refusal # {}
             THEN /\ outcome' = refusal
                  /\ UNCHANGED <<transactions, portfolio>>
             ELSE /\ Len(transactions) < MaxSampleTx
                  /\ transactions' = saved.transactions
                  /\ portfolio' = saved.portfolio
                  /\ outcome' = {"recorded"}
        /\ UNCHANGED <<contributions, now, clock>>

\* The application and the script on one data directory: contributions of
\* 500 AUD, purchases, the history page, and the script run at any time.
NextSample ==
    \/ /\ show_contributions_page_add(MEMBERS[1], 50000000, Today, MaxSampleContribs)
       /\ report_replaced
    \/ \E entry \in SamplePurchaseEntries :
          /\ sample_show_buy_crypto_page(entry)
          /\ report_replaced
    \/ \E snapshot \in LiveSnapshots : run_report("Transaction History", snapshot)
    \/ \E missed \in SampleMisses : init_sample_data_main(missed)

SpecSample == Init /\ [][NextSample]_vars

\* A step that records a purchase: one record is appended, the quantity of
\* its asset rises by its amount and every other quantity stays.
HoldingsRaisedByPurchase ==
    /\ outcome' = {"recorded"}
    /\ Len(transactions') = Len(transactions) + 1
    /\ LET t == transactions'[Len(transactions')]
       IN  /\ DOMAIN portfolio' = DOMAIN portfolio \cup {t.crypto}
           /\ portfolio'[t.crypto] = Get(portfolio, t.crypto, 0) + t.amount
           /\ \A other \in DOMAIN portfolio \ {t.crypto} :
                 portfolio'[other] = portfolio[other]

\* No quantity of the holdings map is lowered or dropped by the step.
NoQuantityDecreases ==
    \A asset \in DOMAIN portfolio :
        /\ asset \in DOMAIN portfolio'
        /\ portfolio'[asset] >= portfolio[asset]

FeeOf(t) == IF "transaction_fee" \in DOMAIN t THEN t.transaction_fee ELSE 0

\* total_cost = unit_amount * unit_price + fee, fee >= 0, kind "buy", symbol
\* not empty.
WellFormedRecord(t) ==
    /\ t.total_cost = t.amount * t.price + FeeOf(t)
    /\ FeeOf(t) >= 0
    /\ t.type = "buy"
    /\ t.crypto # ""

record_purchases_accepts(entry, balance) ==
    /\ balance > 0
    /\ can_purchase(CryptoSymbol(entry.selected, entry.custom), entry.amount,
                    entry.price, TotalCost(entry.amount, entry.price, entry.fee),
                    balance)

\* C26: on every ledger the write operations produce, the balance of app.py
\* (pool minus the total cost of the records of type "buy") equals the
\* balance of app_modern.py (pool minus the total cost of all records), and
\* a filling of the purchase form is accepted by one application exactly when
\* it is accepted by the other.
C26_VariantsAgreeOnBalance ==
    /\ available_balance(contributions, transactions)
          = available_balance_modern(contributions, transactions)
    /\ \A entry \in PurchaseEntries :
          (buy_crypto_refusal(entry, available_balance(contributions, transactions)) = {})
             <=> record_purchases_accepts(entry,
                     available_balance_modern(contributions, transactions))

\* Purchases were recorded through both reckonings and balance is left for
\* one more purchase but not for every one.
C26_Witness ==
    /\ Len(transactions) = 2
    /\ available_balance(contributions, transactions) > 0
    /\ \E entry \in PurchaseEntries :
          record_purchases_accepts(entry,
              available_balance_modern(contributions, transactions))
    /\ \E entry \in PurchaseEntries :
          "balance" \in buy_crypto_refusal(entry,
                            available_balance(contributions, transactions))

\* C27: for every member of the registry the weekly report has an entry, and
\* its current_ownership equals the member's ownership percentage: the pool
\* summed over every key of the contributions document is the pool summed
\* over the registry.
C27_WeeklyOwnershipIsOwnership ==
    LET performance == calculate_weekly_performance(contributions, datetime_now)
        ownership_percentages == calculate_ownership_percentages(contributions)
    IN  /\ total_contrib_this_week(contributions) = TotalPool(contributions)
        /\ \A member \in MemberSet :
              /\ member \in DOMAIN performance
              /\ performance[member].current_ownership = ownership_percentages[member]

\* Two members hold unequal shares of the pool and two have none.
C27_Witness ==
    /\ outcome = {"added"}
    /\ calculate_ownership_percentages(contributions)[MEMBERS[1]] = 25 * PctScale
    /\ calculate_weekly_performance(contributions, datetime_now)[MEMBERS[2]].current_ownership
          = 75 * PctScale
    /\ RecordCount(contributions) = 3

\* Sum of the members' equity values of a table, in the order of MEMBERS.
SumOfShares(table) ==
    SumSeq([i \in 1..Len(MEMBERS) |-> table[MEMBERS[i]].portfolio_share])

\* The equity values of a table add up to the value, within one unit of
\* rounding of the percentage per member.
AttributesAll(table, value) ==
    /\ SumOfShares(table) <= value * 100 * PctScale
    /\ SumOfShares(table) >= value * (100 * PctScale - Len(MEMBERS))

\* C28: under every snapshot, when the pool is positive the members' equity
\* values sum to the portfolio value, within rounding, on either dashboard;
\* when the pool is empty every equity value is 0.
C28_EquitySumsToValue ==
    \A snapshot \in LiveSnapshots :
        LET table == member_data(contributions, portfolio, snapshot)
            table_modern == member_details_modern(contributions, portfolio, snapshot)
        IN  /\ TotalPool(contributions) > 0 =>
                  /\ AttributesAll(table, calculate_portfolio_value(portfolio, snapshot))
                  /\ AttributesAll(table_modern,
                                   calculate_portfolio_value_modern(portfolio, snapshot))
            /\ TotalPool(contributions) = 0 =>
                  \A member \in MemberSet :
                      /\ table[member].portfolio_share = 0
                      /\ table_modern[member].portfolio_share = 0

\* Two members own a third and two thirds of a pool that bought something:
\* the equity values fall short of the value by the rounding of the thirds.
C28_Witness ==
    /\ outcome = {"recorded"}
    /\ portfolio["BTC"] > 0
    /\ \E snapshot \in LiveSnapshots :
          LET table == member_data(contributions, portfolio, snapshot)
              value == calculate_portfolio_value(portfolio, snapshot)
          IN  /\ value > 0
              /\ SumOfShares(table) < value * 100 * PctScale
              /\ table[MEMBERS[4]].portfolio_share = 0
              /\ table[MEMBERS[1]].portfolio_share < table[MEMBERS[2]].portfolio_share
              /\ table[MEMBERS[1]].portfolio_share > 0

\* Sum of invested over the assets of an ROI result.
TotalInvested(roi_data) ==
    SumValues([asset \in DOMAIN roi_data |-> roi_data[asset].invested])

\* C29: in every reachable state and under every snapshot the ROI report
\* agrees with the ledgers: it returns a result in which amount_held of every
\* asset is the asset's holding, and the invested totals of the assets with
\* purchases add up to the pool minus the available balance.
C29_RoiAgreesWithLedgers ==
    \A snapshot \in PriceSnapshots :
        LET roi == calculate_roi_by_crypto(transactions, snapshot)
        IN  /\ roi.error = ""
            /\ \A asset \in DOMAIN roi.roi_data :
                  roi.roi_data[asset].amount_held = Get(portfolio, asset, 0)
            /\ TotalInvested(roi.roi_data)
                  = TotalPool(contributions)
                      - available_balance(contributions, transactions)

====
